---- MODULE Spec2Model ----
(***************************************************************************)
(* Data-flow simulation of GraphPC (graph_construct/c_parser.py over       *)
(* graph_construct/variable_table.py).                                     *)
(*                                                                         *)
(* A raw syntax tree (the output of the external parser) is a nested       *)
(* record.  Build turns it into the shadow tree of Node objects, indexed   *)
(* in pre-order.  simulate_data_flow is a recursive method; the model      *)
(* keeps the Python call stack explicitly: a frame is one running          *)
(* simulate_data_flow call, its "plan" is the sequence of calls that the   *)
(* handler of its node makes, and each action carries out one such call.   *)
(* At every state exactly one call is due, as in the single-threaded code. *)
(*                                                                         *)
(* Python objects are modelled by value.  This is exact here: a unit dict  *)
(* handed to the father by pop_self is shared only with the popped table,  *)
(* which is never used again; every set stored in a unit is created fresh  *)
(* (find_reference line 34, add_reference line 42, find_and_update lines   *)
(* 61-66) and node.last_read / node.last_write are never stored anywhere.  *)
(***************************************************************************)
EXTENDS Integers, Sequences, FiniteSets, TLC

VARIABLES source, tree, tables, last_read, last_write, computed_from,
          stack, due, status, trace, peer

vars == <<source, tree, tables, last_read, last_write, computed_from,
          stack, due, status, trace, peer>>

(***************************************************************************)
(* Program constants                                                       *)
(***************************************************************************)
\* No token is special.
SPECIAL_TOKENS_None == {}

SPECIAL_TOKENS == {"cin", "cout", "endl"}

UPDATE_MODE == {"ro", "wo", "rw"}

\* The types with a handler of their own, without return_statement.
ATOM_TYPES_NoReturn ==
    {"init_declarator", "array_declarator", "parameter_declaration", "function_declarator",
     "expression_statement", "pointer_declarator", "declaration", "condition_declaration",
     "preproc_def", "using_declaration",
     "condition_clause", "argument_list", "parameter_list",
     "initializer_list", "initializer_pair", "translation_unit",
     "comma_expression", "assignment_expression", "binary_expression", "call_expression",
     "update_expression", "subscript_expression", "conditional_expression",
     "pointer_expression", "field_expression", "sizeof_expression", "identifier"}

ATOM_TYPES ==
    {"init_declarator", "array_declarator", "parameter_declaration", "function_declarator",
     "expression_statement", "pointer_declarator", "declaration", "condition_declaration",
     "preproc_def", "using_declaration",
     "return_statement", "condition_clause", "argument_list", "parameter_list",
     "initializer_list", "initializer_pair", "translation_unit",
     "comma_expression", "assignment_expression", "binary_expression", "call_expression",
     "update_expression", "subscript_expression", "conditional_expression",
     "pointer_expression", "field_expression", "sizeof_expression", "identifier"}

MODE == {"r", "w", "d", "o"}

\* The grammar's node types whose name contains "preproc" / "declarator" /
\* "declaration" (the code tests these by substring).
PreprocTypes ==
    {"preproc_include", "preproc_def", "preproc_function_def", "preproc_call",
     "preproc_if", "preproc_ifdef", "preproc_else", "preproc_elif", "preproc_params",
     "preproc_defined", "preproc_directive"}

DeclaratorTypes ==
    {"init_declarator", "array_declarator", "function_declarator", "pointer_declarator",
     "reference_declarator", "parenthesized_declarator", "abstract_pointer_declarator",
     "abstract_array_declarator", "abstract_function_declarator", "structured_binding_declarator"}

DeclarationTypes ==
    {"declaration", "condition_declaration", "parameter_declaration", "using_declaration",
     "field_declaration", "alias_declaration", "optional_parameter_declaration"}

\* Python's None where a table or a node is expected.
None == -1

(***************************************************************************)
(* Raw syntax trees (tree_sitter.Node): type, is_named, the source text of *)
(* an identifier, the field name under which the parent holds the node,    *)
(* and the children.                                                       *)
(***************************************************************************)
Raw(type, kids) ==
    [type |-> type, named |-> TRUE, token |-> "", field |-> "", kids |-> kids]

Anon(type) ==
    [type |-> type, named |-> FALSE, token |-> type, field |-> "", kids |-> <<>>]

Ident(name) ==
    [type |-> "identifier", named |-> TRUE, token |-> name, field |-> "", kids |-> <<>>]

Field(name, raw) == [raw EXCEPT !.field = name]

Number == Raw("number_literal", <<>>)

PrimitiveType == Raw("primitive_type", <<>>)

RawBinary(l, op, r) ==
    Raw("binary_expression", <<Field("left", l), Field("operator", Anon(op)), Field("right", r)>>)

RawAssign(l, r) ==
    Raw("assignment_expression", <<Field("left", l), Field("operator", Anon("=")), Field("right", r)>>)

RawPostfix(v) ==
    Raw("update_expression", <<Field("argument", Ident(v)), Field("operator", Anon("++"))>>)

RawPrefix(v) ==
    Raw("update_expression", <<Field("operator", Anon("--")), Field("argument", Ident(v))>>)

RawExprStmt(e) == Raw("expression_statement", <<e, Anon(";")>>)

RawDeclInit(v, e) ==
    Raw("declaration",
        <<Field("type", PrimitiveType),
          Field("declarator",
                Raw("init_declarator",
                    <<Field("declarator", Ident(v)), Anon("="), Field("value", e)>>)),
          Anon(";")>>)

RawBlock(stmts) == Raw("compound_statement", <<Anon("{")>> \o stmts \o <<Anon("}")>>)

RawCondition(e) ==
    Raw("condition_clause", <<Anon("("), Field("value", e), Anon(")")>>)

RawIf(c, cons) ==
    Raw("if_statement",
        <<Anon("if"), Field("condition", RawCondition(c)), Field("consequence", cons)>>)

RawIfElse(c, cons, alt) ==
    Raw("if_statement",
        <<Anon("if"), Field("condition", RawCondition(c)), Field("consequence", cons),
          Anon("else"), Field("alternative", alt)>>)

RawWhile(c, body) ==
    Raw("while_statement",
        <<Anon("while"), Field("condition", RawCondition(c)), Field("body", body)>>)

RawDo(body, c) ==
    Raw("do_statement",
        <<Anon("do"), Field("body", body), Anon("while"),
          Field("condition", Raw("parenthesized_expression", <<Anon("("), c, Anon(")")>>)),
          Anon(";")>>)

\* for (int i = 0; c; u) body     (the declaration carries its own ";")
RawFor(init, c, u, body) ==
    Raw("for_statement",
        <<Anon("for"), Anon("("), Field("initializer", init), Field("condition", c),
          Anon(";"), Field("update", u), Anon(")"), body>>)

\* for (init; c; u) body with an expression as initializer
RawForExpr(init, c, u, body) ==
    Raw("for_statement",
        <<Anon("for"), Anon("("), Field("initializer", init), Anon(";"),
          Field("condition", c), Anon(";"), Field("update", u), Anon(")"), body>>)

\* c ? a : b
RawConditional(c, a, b) ==
    Raw("conditional_expression",
        <<Field("condition", c), Anon("?"), Field("consequence", a), Anon(":"),
          Field("alternative", b)>>)

\* base[index]
RawSubscript(base, index) ==
    Raw("subscript_expression",
        <<Field("argument", base), Anon("["), Field("index", index), Anon("]")>>)

\* f(arg)
RawCall(f, arg) ==
    Raw("call_expression",
        <<Field("function", Ident(f)),
          Field("arguments", Raw("argument_list", <<Anon("("), arg, Anon(")")>>))>>)

\* base.f
RawFieldExpr(base, f) ==
    Raw("field_expression",
        <<Field("argument", base), Field("operator", Anon(".")),
          Field("field", [Raw("field_identifier", <<>>) EXCEPT !.token = f])>>)

\* *e
RawPointer(e) ==
    Raw("pointer_expression", <<Field("operator", Anon("*")), Field("argument", e)>>)

\* (e)
RawParen(e) == Raw("parenthesized_expression", <<Anon("("), e, Anon(")")>>)

\* l, r
RawComma(l, r) ==
    Raw("comma_expression", <<Field("left", l), Anon(","), Field("right", r)>>)

\* switch (c) body
RawSwitch(c, body) ==
    Raw("switch_statement",
        <<Anon("switch"), Field("condition", RawParen(c)), Field("body", body)>>)

\* return e;
RawReturn(e) == Raw("return_statement", <<Anon("return"), e, Anon(";")>>)

\* int name(int param) { stmts }
RawFunction(name, param, stmts) ==
    Raw("function_definition",
        <<Field("type", PrimitiveType),
          Field("declarator",
                Raw("function_declarator",
                    <<Field("declarator", Ident(name)),
                      Field("parameters",
                            Raw("parameter_list",
                                <<Anon("("),
                                  Raw("parameter_declaration",
                                      <<Field("type", PrimitiveType),
                                        Field("declarator", Ident(param))>>),
                                  Anon(")")>>))>>)),
          Field("body", RawBlock(stmts))>>)

\* The whole file.
RawUnit(items) == Raw("translation_unit", items)

(***************************************************************************)
(* The shadow tree: Node.__init__ and Node.assign_idx.  A shadow node is   *)
(* identified by its idx; tree[i] is the node with idx i.                  *)
(***************************************************************************)
\* Node.__init__ line 42: comment and preproc_arg children are skipped.
KeptChildren(raw) ==
    SelectSeq(raw.kids, LAMBDA k : k.type # "comment" /\ k.type # "preproc_arg")

\* Node.__init__ lines 43-56: the class a child is constructed with.
ChildClass(type) ==
    CASE type = "if_statement" -> "IfStatement"
      [] type = "for_statement" -> "ForStatement"
      [] type = "while_statement" -> "WhileStatement"
      [] type = "do_statement" -> "DoStatement"
      [] type = "function_definition" -> "FuncDefinition"
      [] type = "struct_specifier" -> "StructSpecifier"
      [] OTHER -> "NormalNode"

\* The number of nodes of the shadow tree of raw.
RECURSIVE TreeSize(_)
TreeSize(raw) ==
    LET kids == KeptChildren(raw)
        total[i \in 0..Len(kids)] ==
            IF i = 0 THEN 1 ELSE total[i - 1] + TreeSize(kids[i])
    IN  total[Len(kids)]

\* An index assignment that advances past the children of a node only, not
\* past the subtrees below them.
assign_idx_ChildrenOnly(raw, idx) == idx + Len(KeptChildren(raw))

\* Node.assign_idx: the node takes idx and its children the following ones
\* in order, each child starting after the last idx of the child before it;
\* the value is the last idx used in the subtree.
assign_idx(raw, idx) == idx + TreeSize(raw) - 1

\* The idx assign_idx gives each child of a node that has the given idx.
ChildIdx(raw, idx) ==
    LET kids == KeptChildren(raw)
        last_idx[i \in 0..Len(kids)] ==
            IF i = 0 THEN idx ELSE assign_idx(kids[i], last_idx[i - 1] + 1)
    IN  [i \in 1..Len(kids) |-> last_idx[i - 1] + 1] \o <<>>

RECURSIVE Concat(_)
Concat(seqs) == IF seqs = <<>> THEN <<>> ELSE Head(seqs) \o Concat(Tail(seqs))

\* The nodes of the subtree in idx order.
RECURSIVE ShadowNodes(_, _, _, _)
ShadowNodes(raw, idx, father, class) ==
    LET kids == KeptChildren(raw)
        cidx == ChildIdx(raw, idx)
    IN  <<[type |-> raw.type, token |-> raw.token, named |-> raw.named,
           field |-> raw.field, class |-> class, father |-> father, children |-> cidx]>>
        \o Concat([i \in 1..Len(kids) |->
                      ShadowNodes(kids[i], cidx[i], idx, ChildClass(kids[i].type))])

\* A construction that raises for an ERROR root only.
ConstructionRaises_RootOnly(raw) == raw.type = "ERROR"

\* Node.__init__ lines 39-56: constructing the node of an ERROR production
\* raises, and so does constructing any node above it, as the children are
\* constructed inside the constructor of their father.
RECURSIVE ConstructionRaises(_)
ConstructionRaises(raw) ==
    \/ raw.type = "ERROR"
    \/ \E i \in 1..Len(KeptChildren(raw)) : ConstructionRaises(KeptChildren(raw)[i])

\* The shadow tree of a source file; the caller wraps the root as a NormalNode.
Build(raw) ==
    LET nodes == ShadowNodes(raw, 0, None, "NormalNode")
    IN  [i \in 0..(Len(nodes) - 1) |-> nodes[i + 1]]

Nodes(t) == DOMAIN t

\* Node.named_children
named_children(t, n) == SelectSeq(t[n].children, LAMBDA c : t[c].named)

\* tree_sitter's child_by_field_name, as the child of the shadow node that wraps it.
child_by_field_name(t, n, name) ==
    LET hits == SelectSeq(t[n].children, LAMBDA c : t[c].field = name)
    IN  IF hits = <<>> THEN None ELSE hits[1]

\* Node.get_named_leaf
RECURSIVE get_named_leaf(_, _)
get_named_leaf(t, n) ==
    LET nc == named_children(t, n)
    IN  IF nc = <<>> THEN <<n>>
        ELSE Concat([i \in 1..Len(nc) |-> get_named_leaf(t, nc[i])])

\* n is d or below d.
RECURSIVE IsWithin(_, _, _)
IsWithin(t, n, d) ==
    IF n = d THEN TRUE
    ELSE IF t[n].father = None THEN FALSE
    ELSE IsWithin(t, t[n].father, d)

\* IfStatement.__init__: the condition clause and the branches.
IfConditionPos(t, n) ==
    LET cs == t[n].children
        hits == {i \in 1..Len(cs) : t[cs[i]].type = "condition_clause"}
    IN  IF hits = {} THEN 0 ELSE CHOOSE i \in hits : \A j \in hits : i <= j

IfConditionClause(t, n) == t[n].children[IfConditionPos(t, n)]

IfBranches(t, n) ==
    LET cs == t[n].children
        ptr == IfConditionPos(t, n)
    IN  SelectSeq(SubSeq(cs, ptr, Len(cs)),
                  LAMBDA c : t[c].field = "consequence" \/ t[c].field = "alternative")

\* ForStatement.__init__
ForField(t, n, name) ==
    LET hits == SelectSeq(named_children(t, n), LAMBDA c : t[c].field = name)
    IN  IF hits = <<>> THEN None ELSE hits[1]

ForLoopBody(t, n) == t[n].children[Len(t[n].children)]

(***************************************************************************)
(* VariableTable.  tables[t] is the table object with identity t; a unit   *)
(* is [lr |-> set of nodes, lw |-> set of nodes]; local_variables and      *)
(* outer_variables are functions from the tokens they bind.                *)
(***************************************************************************)
\* VariableTable.__init__
VariableTable(father) ==
    [father |-> father, child |-> None,
     local_variables |-> <<>>, outer_variables |-> <<>>]

\* A lookup that prefers the cached unit to the table's own binding.
UnitOf_CacheFirst(tbls, t, token) ==
    IF token \in DOMAIN tbls[t].outer_variables
    THEN tbls[t].outer_variables[token]
    ELSE tbls[t].local_variables[token]

\* The unit find_reference returns for a token held by the table itself.
UnitOf(tbls, t, token) ==
    IF token \in DOMAIN tbls[t].local_variables
    THEN tbls[t].local_variables[token]
    ELSE tbls[t].outer_variables[token]

\* A lookup that caches the inherited unit in the asking table only, not in
\* the tables between it and the table that holds the name.
RECURSIVE find_reference_OwnCacheOnly(_, _, _)
find_reference_OwnCacheOnly(tbls, t, token) ==
    IF token \in DOMAIN tbls[t].local_variables THEN [tables |-> tbls, found |-> TRUE]
    ELSE IF token \in DOMAIN tbls[t].outer_variables THEN [tables |-> tbls, found |-> TRUE]
    ELSE IF tbls[t].father = None THEN [tables |-> tbls, found |-> FALSE]
    ELSE LET up == find_reference_OwnCacheOnly(tbls, tbls[t].father, token)
         IN  IF up.found
             THEN LET unit == UnitOf(up.tables, tbls[t].father, token)
                      copy == [lr |-> {} \cup unit.lr, lw |-> {} \cup unit.lw]
                  IN  [tables |-> [tbls EXCEPT ![t].outer_variables = (token :> copy) @@ @],
                       found |-> TRUE]
             ELSE [tables |-> tbls, found |-> FALSE]

\* VariableTable.find_reference: the tables afterwards (the caches filled on
\* the way) and whether a unit was found; the unit is then UnitOf(.., t, token).
RECURSIVE find_reference(_, _, _)
find_reference(tbls, t, token) ==
    IF token \in DOMAIN tbls[t].local_variables THEN [tables |-> tbls, found |-> TRUE]
    ELSE IF token \in DOMAIN tbls[t].outer_variables THEN [tables |-> tbls, found |-> TRUE]
    ELSE IF tbls[t].father = None THEN [tables |-> tbls, found |-> FALSE]
    ELSE LET up == find_reference(tbls, tbls[t].father, token)
         IN  IF up.found
             THEN LET unit == UnitOf(up.tables, tbls[t].father, token)
                      copy == [lr |-> {} \cup unit.lr, lw |-> {} \cup unit.lw]
                  IN  [tables |-> [up.tables EXCEPT ![t].outer_variables = (token :> copy) @@ @],
                       found |-> TRUE]
             ELSE [tables |-> tbls, found |-> FALSE]

\* A binding made without its declaring node as writer.
add_reference_NoWriter(tbls, t, token, node) ==
    IF token \in SPECIAL_TOKENS THEN tbls
    ELSE [tbls EXCEPT ![t].local_variables =
              (token :> [lr |-> {node}, lw |-> {}]) @@ @]

\* A binding that also drops the name from the table's cache.
add_reference_Uncached(tbls, t, token, node) ==
    IF token \in SPECIAL_TOKENS THEN tbls
    ELSE [tbls EXCEPT ![t].local_variables =
                          (token :> [lr |-> {node}, lw |-> {node}]) @@ @,
                      ![t].outer_variables =
                          [k \in DOMAIN @ \ {token} |-> @[k]]]

\* A binding made in one dict that every table holds as its
\* local_variables (a class attribute in place of the instance attribute).
add_reference_SharedBindings(tbls, t, token, node) ==
    IF token \in SPECIAL_TOKENS THEN tbls
    ELSE [u \in DOMAIN tbls |->
             [tbls[u] EXCEPT !.local_variables = (token :> [lr |-> {node}, lw |-> {node}]) @@ @]]

\* VariableTable.add_reference
add_reference(tbls, t, token, node) ==
    IF token \in SPECIAL_TOKENS THEN tbls
    ELSE [tbls EXCEPT ![t].local_variables =
              (token :> [lr |-> {node}, lw |-> {node}]) @@ @]

\* The unit replaced in the table and in the table it was inherited from, as
\* if find_reference had handed out the father's unit itself.
RECURSIVE SetUnit_Aliased(_, _, _, _)
SetUnit_Aliased(tbls, t, token, unit) ==
    LET here == IF token \in DOMAIN tbls[t].local_variables
                THEN [tbls EXCEPT ![t].local_variables[token] = unit]
                ELSE [tbls EXCEPT ![t].outer_variables[token] = unit]
    IN  IF token \in DOMAIN tbls[t].local_variables \/ tbls[t].father = None
        THEN here
        ELSE SetUnit_Aliased(here, tbls[t].father, token, unit)

\* The unit of a token in a table, replaced.
SetUnit(tbls, t, token, unit) ==
    IF token \in DOMAIN tbls[t].local_variables
    THEN [tbls EXCEPT ![t].local_variables[token] = unit]
    ELSE [tbls EXCEPT ![t].outer_variables[token] = unit]

\* The unit after an update in which a write-only access leaves the last
\* writers as they were.
UpdatedUnit_WriteNotRecorded(unit, node, mode) ==
    IF mode = "ro" THEN [unit EXCEPT !.lr = {node}]
    ELSE IF mode = "wo" THEN unit
    ELSE [lr |-> {node}, lw |-> {node}]

\* The unit after an update in which a read-and-write access counts as a
\* read only.
UpdatedUnit_ReadWriteAsRead(unit, node, mode) ==
    IF mode = "wo" THEN [unit EXCEPT !.lw = {node}]
    ELSE [unit EXCEPT !.lr = {node}]

\* The unit after find_and_update's lines 60-66.
UpdatedUnit(unit, node, mode) ==
    IF mode = "ro" THEN [unit EXCEPT !.lr = {node}]
    ELSE IF mode = "wo" THEN [unit EXCEPT !.lw = {node}]
    ELSE [lr |-> {node}, lw |-> {node}]

\* find_and_update with lines 57-58 as assignments (= in place of |=).
find_and_update_Overwriting(tbls, lrd, lwr, t, token, node, mode) ==
    IF token \in SPECIAL_TOKENS
    THEN [tables |-> tbls, last_read |-> lrd, last_write |-> lwr, raised |-> FALSE]
    ELSE LET r == find_reference(tbls, t, token)
         IN  IF ~r.found
             THEN [tables |-> tbls, last_read |-> lrd, last_write |-> lwr, raised |-> TRUE]
             ELSE LET unit == UnitOf(r.tables, t, token)
                  IN  [tables |-> SetUnit(r.tables, t, token, UpdatedUnit(unit, node, mode)),
                       last_read |-> [lrd EXCEPT ![node] = unit.lr],
                       last_write |-> [lwr EXCEPT ![node] = unit.lw],
                       raised |-> FALSE]

\* A find_and_update that, for a name bound nowhere, makes an empty unit in
\* the table's cache and updates it in place of raising.
find_and_update_Permissive(tbls, lrd, lwr, t, token, node, mode) ==
    IF token \in SPECIAL_TOKENS
    THEN [tables |-> tbls, last_read |-> lrd, last_write |-> lwr, raised |-> FALSE]
    ELSE LET r == find_reference(tbls, t, token)
             unit == IF r.found THEN UnitOf(r.tables, t, token) ELSE [lr |-> {}, lw |-> {}]
             held == IF r.found THEN r.tables
                     ELSE [tbls EXCEPT ![t].outer_variables = (token :> unit) @@ @]
         IN  IF mode \notin UPDATE_MODE
             THEN [tables |-> r.tables, last_read |-> lrd, last_write |-> lwr, raised |-> TRUE]
             ELSE [tables |-> SetUnit(held, t, token, UpdatedUnit(unit, node, mode)),
                   last_read |-> [lrd EXCEPT ![node] = @ \cup unit.lr],
                   last_write |-> [lwr EXCEPT ![node] = @ \cup unit.lw],
                   raised |-> FALSE]

\* VariableTable.find_and_update: tables and node annotations afterwards,
\* and whether it raised.
find_and_update(tbls, lrd, lwr, t, token, node, mode) ==
    IF token \in SPECIAL_TOKENS
    THEN [tables |-> tbls, last_read |-> lrd, last_write |-> lwr, raised |-> FALSE]
    ELSE LET r == find_reference(tbls, t, token)
         IN  IF ~r.found
             THEN [tables |-> tbls, last_read |-> lrd, last_write |-> lwr, raised |-> TRUE]
             ELSE IF mode \notin UPDATE_MODE
             THEN [tables |-> r.tables, last_read |-> lrd, last_write |-> lwr, raised |-> TRUE]
             ELSE LET unit == UnitOf(r.tables, t, token)
                  IN  [tables |-> SetUnit(r.tables, t, token, UpdatedUnit(unit, node, mode)),
                       last_read |-> [lrd EXCEPT ![node] = @ \cup unit.lr],
                       last_write |-> [lwr EXCEPT ![node] = @ \cup unit.lw],
                       raised |-> FALSE]

\* The update handler without lines 271 and 273 (no edge of the node to itself).
update_expression_NoSelfEdge(tbls, lrd, lwr, t, token, node) ==
    LET r == find_reference(tbls, t, token)
    IN  IF ~r.found
        THEN [tables |-> tbls, last_read |-> lrd, last_write |-> lwr, raised |-> TRUE]
        ELSE LET unit == UnitOf(r.tables, t, token)
             IN  [tables |-> SetUnit(r.tables, t, token, [lr |-> {node}, lw |-> {node}]),
                  last_read |-> [lrd EXCEPT ![node] = @ \cup unit.lr],
                  last_write |-> [lwr EXCEPT ![node] = @ \cup unit.lw],
                  raised |-> FALSE]

\* NormalNode.simulate_data_flow, update_expression, lines 269-275.
update_expression(tbls, lrd, lwr, t, token, node) ==
    LET r == find_reference(tbls, t, token)
    IN  IF ~r.found
        THEN [tables |-> tbls, last_read |-> lrd, last_write |-> lwr, raised |-> TRUE]
        ELSE LET unit == UnitOf(r.tables, t, token)
             IN  [tables |-> SetUnit(r.tables, t, token, [lr |-> {node}, lw |-> {node}]),
                  last_read |-> [lrd EXCEPT ![node] = (@ \cup unit.lr) \cup {node}],
                  last_write |-> [lwr EXCEPT ![node] = (@ \cup unit.lw) \cup {node}],
                  raised |-> FALSE]

\* A new table under t that t's child slot is not set to.
add_variable_table_Detached(tbls, t) == Append(tbls, VariableTable(t))

\* VariableTable.add_variable_table: the new table is the last of the result.
add_variable_table(tbls, t) ==
    Append([tbls EXCEPT ![t].child = Len(tbls) + 1], VariableTable(t))

\* A pop that leaves the father's unit as it was (no write-back).
PoppedUnit_KeepFather(childUnit, fatherUnit) == fatherUnit

\* A pop that unions the child's unit into the father's, as a merge does.
PoppedUnit_Merged(childUnit, fatherUnit) ==
    [lr |-> fatherUnit.lr \cup childUnit.lr, lw |-> fatherUnit.lw \cup childUnit.lw]

\* The unit pop_self stores in the father for a token of the child's cache.
PoppedUnit(childUnit, fatherUnit) == childUnit

\* A pop that only detaches the child: nothing is written back.
pop_self_NoWriteBack(tbls, t) == [tbls EXCEPT ![tbls[t].father].child = None]

\* A pop that also hands the child's own bindings to the father.
pop_self_WithLocals(tbls, t) ==
    LET f == tbls[t].father
    IN  [tbls EXCEPT ![f].child = None,
                     ![f].local_variables = tbls[t].local_variables @@ @]

\* A pop that hands over the child's own binding of a token where the child
\* holds both a cached copy and a binding of its own.
pop_self_LocalWins(tbls, t) ==
    LET f == tbls[t].father
        so == tbls[t].outer_variables
        sl == tbls[t].local_variables
        fl == tbls[f].local_variables
        fo == tbls[f].outer_variables
        toLocal == DOMAIN so \cap DOMAIN fl
        toOuter == DOMAIN so \ DOMAIN fl
    IN  [tbls EXCEPT
           ![f].child = None,
           ![f].local_variables =
               [k \in DOMAIN fl |->
                   IF k \in toLocal THEN (IF k \in DOMAIN sl THEN sl[k] ELSE so[k]) ELSE fl[k]],
           ![f].outer_variables =
               [k \in DOMAIN fo \cup toOuter |->
                   IF k \in toOuter THEN (IF k \in DOMAIN sl THEN sl[k] ELSE so[k]) ELSE fo[k]]]

\* VariableTable.pop_self (the second test, line 87, is on the child's own
\* cache and so always succeeds).
pop_self(tbls, t) ==
    LET f == tbls[t].father
        so == tbls[t].outer_variables
        fl == tbls[f].local_variables
        fo == tbls[f].outer_variables
        toLocal == DOMAIN so \cap DOMAIN fl
        toOuter == DOMAIN so \ DOMAIN fl
    IN  [tbls EXCEPT
           ![f].child = None,
           ![f].local_variables =
               [k \in DOMAIN fl |-> IF k \in toLocal THEN PoppedUnit(so[k], fl[k]) ELSE fl[k]],
           ![f].outer_variables =
               [k \in DOMAIN fo \cup toOuter |->
                   IF k \in toOuter
                   THEN PoppedUnit(so[k], IF k \in DOMAIN fo THEN fo[k] ELSE so[k])
                   ELSE fo[k]]]

\* A merge that replaces the father's unit by the child's, as pop_self does.
MergedUnit_ChildOnly(childUnit, fatherUnit) == childUnit

\* A merge that unions the readers and keeps the father's writers.
MergedUnit_ReadersOnly(childUnit, fatherUnit) ==
    [lr |-> fatherUnit.lr \cup childUnit.lr, lw |-> fatherUnit.lw]

\* The unit merge_and_pop_self leaves in the father for a token of the child's cache.
MergedUnit(childUnit, fatherUnit) ==
    [lr |-> fatherUnit.lr \cup childUnit.lr, lw |-> fatherUnit.lw \cup childUnit.lw]

\* merge_and_pop_self raises when a cached token is in neither father table.
merge_raises(tbls, t) ==
    LET f == tbls[t].father
    IN  \E k \in DOMAIN tbls[t].outer_variables :
            /\ k \notin DOMAIN tbls[f].local_variables
            /\ k \notin DOMAIN tbls[f].outer_variables

\* A merge that unions, into each unit of the father it reaches, the units of
\* all names the child has cached.
merge_and_pop_self_AcrossNames(tbls, t) ==
    LET f == tbls[t].father
        so == tbls[t].outer_variables
        fl == tbls[f].local_variables
        fo == tbls[f].outer_variables
        all == [lr |-> UNION {so[j].lr : j \in DOMAIN so},
                lw |-> UNION {so[j].lw : j \in DOMAIN so}]
    IN  [tbls EXCEPT
           ![f].child = None,
           ![f].local_variables =
               [k \in DOMAIN fl |-> IF k \in DOMAIN so THEN MergedUnit(all, fl[k]) ELSE fl[k]],
           ![f].outer_variables =
               [k \in DOMAIN fo |->
                   IF k \in DOMAIN so /\ k \notin DOMAIN fl
                   THEN MergedUnit(all, fo[k]) ELSE fo[k]]]

\* VariableTable.merge_and_pop_self
merge_and_pop_self(tbls, t) ==
    LET f == tbls[t].father
        so == tbls[t].outer_variables
        fl == tbls[f].local_variables
        fo == tbls[f].outer_variables
    IN  [tbls EXCEPT
           ![f].child = None,
           ![f].local_variables =
               [k \in DOMAIN fl |-> IF k \in DOMAIN so THEN MergedUnit(so[k], fl[k]) ELSE fl[k]],
           ![f].outer_variables =
               [k \in DOMAIN fo |->
                   IF k \in DOMAIN so /\ k \notin DOMAIN fl
                   THEN MergedUnit(so[k], fo[k]) ELSE fo[k]]]

(***************************************************************************)
(* simulate_data_flow.  The plan of a call is the sequence of calls its    *)
(* handler makes, in order.  A table is named relative to the call:        *)
(* 0 is the variable_table argument, k > 0 the k-th table the call created.*)
(***************************************************************************)
Sim(node, mode, tref) == [op |-> "sim", n |-> node, m |-> mode, t |-> tref, c |-> 0]

AddTable(tref) == [op |-> "add_variable_table", n |-> None, m |-> "", t |-> tref, c |-> 0]

NewTable(tref) == [op |-> "VariableTable", n |-> None, m |-> "", t |-> tref, c |-> 0]

SetChild(tref, cref) == [op |-> "set_child", n |-> None, m |-> "", t |-> tref, c |-> cref]

Pop(tref) == [op |-> "pop_self", n |-> None, m |-> "", t |-> tref, c |-> 0]

Merge(tref) == [op |-> "merge_and_pop_self", n |-> None, m |-> "", t |-> tref, c |-> 0]

FindUpd(node, mode, tref) == [op |-> "find_and_update", n |-> node, m |-> mode, t |-> tref, c |-> 0]

AddRef(node, tref) == [op |-> "add_reference", n |-> node, m |-> "", t |-> tref, c |-> 0]

UpdExpr(node, tref) == [op |-> "update_expression", n |-> node, m |-> "", t |-> tref, c |-> 0]

Raise == [op |-> "raise", n |-> None, m |-> "", t |-> 0, c |-> 0]

\* seq[i].simulate_data_flow(variable_table, mode); an IndexError is a raise.
SimAt(seq, i, mode) == IF i <= Len(seq) THEN Sim(seq[i], mode, 0) ELSE Raise

SimEach(seq, mode) == [i \in 1..Len(seq) |-> Sim(seq[i], mode, 0)]

\* find_left_most of the assignment_expression handler
RECURSIVE find_left_most(_, _)
find_left_most(t, n) ==
    IF Len(t[n].children) # 0 THEN find_left_most(t, t[n].children[1])
    ELSE t[n].type = "primitive_type" \/ t[n].type = "dependent_type"

\* A statement whose identifier, subscript and pointer children are read
\* like any other expression.
StatementChildMode_NeverDeclares(type) ==
    IF type = "comma_expression" \/ type = "assignment_expression" THEN "o" ELSE "r"

\* expression_statement and comma_expression in mode "o": the mode of a child.
StatementChildMode(type) ==
    IF type \in {"identifier", "subscript_expression", "pointer_expression"} THEN "d"
    ELSE IF type = "comma_expression" \/ type = "assignment_expression" THEN "o"
    ELSE "r"

ExpressionPlan(t, n, mode) ==
    LET nc == named_children(t, n)
    IN  IF mode = "o" THEN [i \in 1..Len(nc) |-> Sim(nc[i], StatementChildMode(t[nc[i]].type), 0)]
        ELSE IF mode = "r" THEN SimEach(nc, "r")
        ELSE <<Raise>>

\* An assignment handler that simulates the left side before the right.
AssignmentPlan_LeftFirst(t, n, mode) ==
    LET ch == t[n].children
        variable == ch[1]
        support_expression ==
            {"identifier", "subscript_expression", "pointer_expression", "field_expression"}
    IN  IF Len(ch) < 3 THEN <<Raise>>
        ELSE (IF t[variable].type \in support_expression
              THEN <<Sim(variable, IF mode = "d" \/ find_left_most(t, n) THEN "d" ELSE "w", 0)>>
              ELSE IF t[variable].type = "parenthesized_expression"
              THEN <<SimAt(t[variable].children, 2, "w")>>
              ELSE <<Raise>>)
             \o <<Sim(ch[3], "r", 0)>>

\* An assignment handler that writes whatever stands on the left.
AssignmentPlan_AnyLeft(t, n, mode) ==
    LET ch == t[n].children
    IN  IF Len(ch) < 3 THEN <<Raise>>
        ELSE <<Sim(ch[3], "r", 0),
               Sim(ch[1], IF mode = "d" \/ find_left_most(t, n) THEN "d" ELSE "w", 0)>>

\* The assignment_expression handler
AssignmentPlan(t, n, mode) ==
    LET ch == t[n].children
        variable == ch[1]
        support_expression ==
            {"identifier", "subscript_expression", "pointer_expression", "field_expression"}
    IN  IF Len(ch) < 3 THEN <<Raise>>
        ELSE <<Sim(ch[3], "r", 0)>> \o
             (IF t[variable].type \in support_expression
              THEN <<Sim(variable, IF mode = "d" \/ find_left_most(t, n) THEN "d" ELSE "w", 0)>>
              ELSE IF t[variable].type = "parenthesized_expression"
              THEN <<SimAt(t[variable].children, 2, "w")>>
              ELSE <<Raise>>)

UpdateExpressionPlan(t, n) ==
    LET ch == t[n].children
        operand == IF t[ch[1]].field = "operator" THEN ch[2] ELSE ch[1]
        variable == get_named_leaf(t, operand)
    IN  <<UpdExpr(variable[1], 0)>>

ConditionClausePlan(t, n) ==
    LET nc == named_children(t, n)
    IN  IF Len(nc) = 2
        THEN <<Sim(nc[1], IF t[nc[1]].type = "declarator" THEN "d" ELSE "r", 0),
               Sim(nc[2], "r", 0)>>
        ELSE IF Len(nc) = 0 THEN <<Raise>>
        ELSE <<Sim(nc[1],
                   IF t[nc[1]].type \in DeclaratorTypes \cup DeclarationTypes THEN "d" ELSE "r",
                   0)>>

\* A subscript handler that reads the base in mode "r" only.
SubscriptPlan_ReadOnlyInRead(t, n, mode) ==
    LET nc == named_children(t, n)
    IN  IF Len(nc) < 2 THEN <<Raise>>
        ELSE <<Sim(nc[2], "r", 0),
               Sim(nc[1], IF mode = "r" THEN "r" ELSE IF mode = "w" THEN "w" ELSE "d", 0)>>

\* The subscript_expression handler
SubscriptPlan(t, n, mode) ==
    LET nc == named_children(t, n)
    IN  IF Len(nc) < 2 THEN <<Raise>>
        ELSE <<Sim(nc[2], "r", 0),
               Sim(nc[1], IF mode = "r" \/ mode = "o" THEN "r"
                          ELSE IF mode = "w" THEN "w" ELSE "d", 0)>>

ConditionalExpressionPlan(t, n) ==
    LET ch == t[n].children
    IN  IF Len(ch) < 5 THEN <<Raise>>
        ELSE <<AddTable(0), Sim(ch[1], "r", 1),
               NewTable(1), Sim(ch[3], "r", 2),
               NewTable(1), Sim(ch[5], "r", 3),
               SetChild(1, 2), Merge(2),
               SetChild(1, 3), AddTable(3),
               Pop(1)>>

FunctionDeclaratorPlan(t, n) ==
    LET func_declarator == child_by_field_name(t, n, "declarator")
        parameter_list == child_by_field_name(t, n, "parameters")
    IN  IF func_declarator = None \/ parameter_list = None THEN <<Raise>>
        ELSE <<Sim(func_declarator, "d", 0), Sim(parameter_list, "d", 0)>>

\* An identifier handler that takes the default mode "o" as a read.
IdentifierPlan_DefaultReads(n, mode) ==
    IF mode = "r" \/ mode = "o" THEN <<FindUpd(n, "ro", 0)>>
    ELSE IF mode = "w" THEN <<FindUpd(n, "wo", 0)>>
    ELSE <<AddRef(n, 0)>>

\* The identifier handler, lines 340-348
IdentifierPlan(n, mode) ==
    IF mode = "r" THEN <<FindUpd(n, "ro", 0)>>
    ELSE IF mode = "w" THEN <<FindUpd(n, "wo", 0)>>
    ELSE IF mode = "d" THEN <<AddRef(n, 0)>>
    ELSE <<Raise>>

\* NormalNode.simulate_data_flow
NormalNodePlan(t, n, mode) ==
    LET ty == t[n].type
        ch == t[n].children
        nc == named_children(t, n)
    IN  IF mode \notin MODE THEN <<Raise>>
        ELSE IF ty \in PreprocTypes /\ ty # "preproc_def" THEN <<>>
        ELSE IF ty \notin ATOM_TYPES THEN SimEach(nc, mode)
        ELSE CASE ty = "translation_unit" -> SimEach(nc, "o")
               [] ty = "preproc_def" -> <<SimAt(ch, 2, "d")>>
               [] ty = "declaration" ->
                    SimEach(SelectSeq(nc, LAMBDA c : t[c].type = "identifier"
                                                     \/ t[c].type \in DeclaratorTypes), "d")
               [] ty = "using_declaration" -> <<SimAt(nc, Len(nc), "d")>>
               [] ty = "pointer_declarator" -> <<SimAt(ch, Len(ch), "d")>>
               [] ty = "init_declarator" -> <<SimAt(nc, 1, "d"), SimAt(nc, 2, "r")>>
               [] ty = "array_declarator" -> <<SimAt(nc, 1, "d")>>
               [] ty = "parameter_declaration" ->
                    SimEach(SelectSeq(nc, LAMBDA c : t[c].type \in DeclaratorTypes), "d")
               [] ty = "function_declarator" -> FunctionDeclaratorPlan(t, n)
               [] ty = "condition_declaration" ->
                    <<SimAt(nc, 2, "d")>> \o SimEach(SubSeq(nc, 3, Len(nc)), "r")
               [] ty = "argument_list" -> SimEach(nc, mode)
               [] ty = "parameter_list" -> SimEach(nc, "d")
               [] ty = "initializer_list" -> SimEach(nc, "r")
               [] ty = "initializer_pair" -> <<SimAt(nc, 1, mode), SimAt(nc, 2, "r")>>
               [] ty = "expression_statement" -> ExpressionPlan(t, n, mode)
               [] ty = "comma_expression" -> ExpressionPlan(t, n, mode)
               [] ty = "assignment_expression" -> AssignmentPlan(t, n, mode)
               [] ty = "field_expression" ->
                    IF mode = "d" THEN <<Raise>> ELSE <<SimAt(ch, 1, mode)>>
               [] ty = "sizeof_expression" -> <<>>
               [] ty = "update_expression" -> UpdateExpressionPlan(t, n)
               [] ty = "binary_expression" -> <<SimAt(ch, 1, "r"), SimAt(ch, 3, "r")>>
               [] ty = "call_expression" ->
                    <<SimAt(ch, 2, IF mode = "o" \/ mode = "r" THEN "r" ELSE mode)>>
               [] ty = "condition_clause" -> ConditionClausePlan(t, n)
               [] ty = "subscript_expression" -> SubscriptPlan(t, n, mode)
               [] ty = "conditional_expression" -> ConditionalExpressionPlan(t, n)
               [] ty = "pointer_expression" -> <<SimAt(ch, 2, mode)>>
               [] ty = "identifier" -> IdentifierPlan(n, mode)
               [] OTHER -> <<>>

\* CompoundStatement.simulate_data_flow
CompoundStatementPlan(t, n, mode) ==
    LET nc == named_children(t, n)
    IN  <<AddTable(0)>> \o [i \in 1..Len(nc) |-> Sim(nc[i], mode, 1)] \o <<Pop(1)>>

\* An if statement whose branches are all simulated in one branch table.
IfStatementPlan_OneBranchTable(t, n, mode) ==
    LET branches == IfBranches(t, n)
    IN  <<AddTable(0), Sim(IfConditionClause(t, n), mode, 1), NewTable(1)>>
        \o [i \in 1..Len(branches) |-> Sim(branches[i], mode, 2)]
        \o <<SetChild(1, 2), Merge(2), Pop(1)>>

\* An if statement that closes its branch tables with pop_self.
IfStatementPlan_BranchesPopped(t, n, mode) ==
    LET branches == IfBranches(t, n)
    IN  <<AddTable(0), Sim(IfConditionClause(t, n), mode, 1)>>
        \o Concat([i \in 1..Len(branches) |-> <<NewTable(1), Sim(branches[i], mode, 1 + i)>>])
        \o Concat([i \in 1..Len(branches) |-> <<SetChild(1, 1 + i), Pop(1 + i)>>])
        \o <<Pop(1)>>

\* IfStatement.simulate_data_flow
IfStatementPlan(t, n, mode) ==
    LET branches == IfBranches(t, n)
    IN  <<AddTable(0), Sim(IfConditionClause(t, n), mode, 1)>>
        \o Concat([i \in 1..Len(branches) |-> <<NewTable(1), Sim(branches[i], mode, 1 + i)>>])
        \o Concat([i \in 1..Len(branches) |-> <<SetChild(1, 1 + i), Merge(1 + i)>>])
        \o <<Pop(1)>>

\* One node of a for statement, when present: identifiers and pointer
\* expressions are read, anything else takes the statement's mode.
ForPart(t, part, mode) ==
    IF part = None THEN <<>>
    ELSE IF t[part].type = "identifier" \/ t[part].type = "pointer_expression"
    THEN <<Sim(part, "r", 1)>>
    ELSE <<Sim(part, mode, 1)>>

ForCondition(t, condition) ==
    IF condition = None THEN <<>> ELSE <<Sim(condition, "r", 1)>>

\* ForStatement.simulate_data_flow
ForStatementPlan(t, n, mode) ==
    LET initializer == ForField(t, n, "initializer")
        condition == ForField(t, n, "condition")
        update == ForField(t, n, "update")
        loop_body == ForLoopBody(t, n)
    IN  <<AddTable(0)>>
        \o ForPart(t, initializer, mode)
        \o ForCondition(t, condition)
        \o <<Sim(loop_body, mode, 1)>>
        \o ForPart(t, update, mode)
        \o ForCondition(t, condition)
        \o <<Sim(loop_body, mode, 1)>>
        \o <<Pop(1)>>

\* A while handler that goes over the loop a third time.
WhileStatementPlan_ThreePasses(t, n, mode) ==
    LET condition_clause == t[n].children[2]
        loop_body == t[n].children[3]
    IN  <<AddTable(0),
          Sim(condition_clause, "r", 1), Sim(loop_body, mode, 1),
          Sim(condition_clause, "r", 1), Sim(loop_body, mode, 1),
          Sim(condition_clause, "r", 1), Sim(loop_body, mode, 1),
          Pop(1)>>

\* WhileStatement.simulate_data_flow
WhileStatementPlan(t, n, mode) ==
    LET condition_clause == t[n].children[2]
        loop_body == t[n].children[3]
    IN  <<AddTable(0),
          Sim(condition_clause, "r", 1), Sim(loop_body, mode, 1),
          Sim(condition_clause, "r", 1), Sim(loop_body, mode, 1),
          Pop(1)>>

\* DoStatement.simulate_data_flow
DoStatementPlan(t, n, mode) ==
    LET body == t[n].children[2]
        condition == t[n].children[4]
    IN  <<AddTable(0),
          Sim(body, mode, 1), Sim(condition, "r", 1),
          Sim(body, mode, 1), Sim(condition, "r", 1),
          Pop(1)>>

\* A function handler that declares the function's name in the function's
\* own scope.
FuncDefinitionPlan_NameInside(t, n, mode) ==
    LET declarator == child_by_field_name(t, n, "declarator")
        func_declarator == child_by_field_name(t, declarator, "declarator")
        parameter_list == child_by_field_name(t, declarator, "parameters")
        body == child_by_field_name(t, n, "body")
        parameters == SelectSeq(get_named_leaf(t, parameter_list),
                                LAMBDA q : t[q].type = "identifier")
    IN  <<AddTable(0), Sim(func_declarator, "d", 1)>>
        \o [i \in 1..Len(parameters) |-> AddRef(parameters[i], 1)]
        \o (IF body = None THEN <<>> ELSE <<Sim(body, mode, 1)>>)
        \o <<Pop(1)>>

\* FuncDefinition.simulate_data_flow; func_declarator, parameter_list and
\* body are the fields FuncDefinition.__init__ resolves.
FuncDefinitionPlan(t, n, mode) ==
    LET declarator == child_by_field_name(t, n, "declarator")
        func_declarator == child_by_field_name(t, declarator, "declarator")
        parameter_list == child_by_field_name(t, declarator, "parameters")
        body == child_by_field_name(t, n, "body")
        parameters == SelectSeq(get_named_leaf(t, parameter_list),
                                LAMBDA q : t[q].type = "identifier")
    IN  <<AddTable(0), Sim(func_declarator, "d", 0)>>
        \o [i \in 1..Len(parameters) |-> AddRef(parameters[i], 1)]
        \o (IF body = None THEN <<>> ELSE <<Sim(body, mode, 1)>>)
        \o <<Pop(1)>>

\* The handler that runs for a node: the method of its class.
Plan(t, n, mode) ==
    CASE t[n].class = "IfStatement" -> IfStatementPlan(t, n, mode)
      [] t[n].class = "ForStatement" -> ForStatementPlan(t, n, mode)
      [] t[n].class = "WhileStatement" -> WhileStatementPlan(t, n, mode)
      [] t[n].class = "DoStatement" -> DoStatementPlan(t, n, mode)
      [] t[n].class = "FuncDefinition" -> FuncDefinitionPlan(t, n, mode)
      [] t[n].class = "CompoundStatement" -> CompoundStatementPlan(t, n, mode)
      [] t[n].class = "StructSpecifier" -> <<>>
      [] OTHER -> NormalNodePlan(t, n, mode)

(***************************************************************************)
(* The sources simulated: int x = 1; int y = x + 1; then statements of at  *)
(* most MaxStmts statements in all (nested ones counted), then             *)
(* int r = x + y;                                                          *)
(***************************************************************************)
MaxStmts == 3

Condition == RawBinary(Ident("x"), ">", Number)

SimpleStatements ==
    {RawExprStmt(RawAssign(Ident("x"), Ident("y"))),
     RawExprStmt(RawPrefix("x")),
     RawDeclInit("x", Number),
     RawDeclInit("z", Ident("x"))}

RECURSIVE StatementsOfSize(_)
RECURSIVE BodiesOfSize(_)

\* The statement sequences that hold n statements in all.
BodiesOfSize(n) ==
    IF n = 0 THEN {<<>>}
    ELSE UNION {{<<st>> \o rest : st \in StatementsOfSize(m), rest \in BodiesOfSize(n - m)}
                  : m \in 1..n}

StatementsOfSize(n) ==
    IF n = 1 THEN SimpleStatements
    ELSE LET blocks == {RawBlock(b) : b \in BodiesOfSize(n - 1)}
         IN  blocks
             \cup {RawIf(Condition, b) : b \in blocks}
             \cup {RawWhile(Condition, b) : b \in blocks}
             \cup {RawDo(b, Condition) : b \in blocks}
             \cup {RawFor(RawDeclInit("i", Number), RawBinary(Ident("i"), "<", Ident("x")),
                          RawPostfix("i"), b) : b \in blocks}
             \cup UNION {{RawIfElse(Condition, RawBlock(b1), RawBlock(b2)) :
                             b1 \in BodiesOfSize(j), b2 \in BodiesOfSize(n - 1 - j)}
                           : j \in 1..(n - 2)}

Prologue ==
    <<RawDeclInit("x", Number), RawDeclInit("y", RawBinary(Ident("x"), "+", Number))>>

Epilogue == <<RawDeclInit("r", RawBinary(Ident("x"), "+", Ident("y")))>>

Sources ==
    {RawUnit(Prologue \o b \o Epilogue) : b \in UNION {BodiesOfSize(n) : n \in 0..MaxStmts}}

\* What the parser yields for text it cannot parse: an ERROR node in place
\* of the tree, of a statement, or of a part of an expression at some depth.
RawError(kids) == Raw("ERROR", kids)

ErrorSources ==
    {RawError(<<Ident("x"), Anon("=")>>),
     RawUnit(Prologue \o <<RawError(<<Ident("x")>>)>> \o Epilogue),
     RawUnit(<<RawError(<<>>)>> \o Prologue),
     RawUnit(Prologue \o <<RawExprStmt(RawAssign(Ident("x"), RawError(<<Ident("y")>>)))>>),
     RawUnit(Prologue
             \o <<RawWhile(Condition,
                           RawBlock(<<RawIf(Condition,
                                            RawBlock(<<RawExprStmt(RawPrefix("x")),
                                                       RawError(<<Anon("}")>>)>>))>>))>>
             \o Epilogue)}

\* Programs over the expression forms: one statement, or a few, between
\* int x = 1; int y = x + 1; and int r = x + y;  The names w and f are
\* declared nowhere.
ExpressionStatements ==
    {<<RawDeclInit("z", RawConditional(Condition, Ident("x"), Ident("y")))>>,
     <<RawExprStmt(RawAssign(Ident("x"),
                             RawConditional(Condition, RawPostfix("x"), Ident("y"))))>>,
     <<RawExprStmt(RawAssign(Ident("x"), RawBinary(Ident("x"), "+", Number)))>>,
     <<RawExprStmt(RawAssign(Ident("w"), Ident("x")))>>,
     <<RawExprStmt(RawAssign(Ident("x"), Ident("w")))>>,
     <<RawWhile(Condition,
                RawBlock(<<RawExprStmt(RawAssign(Ident("y"), Ident("w"))),
                           RawExprStmt(RawAssign(Ident("x"), Ident("y")))>>))>>,
     <<RawIfElse(Condition,
                 RawBlock(<<RawExprStmt(RawAssign(Ident("x"), Ident("y")))>>),
                 RawBlock(<<RawExprStmt(RawPostfix("w"))>>))>>,
     <<RawExprStmt(RawAssign(RawSubscript(Ident("x"), Ident("y")), Ident("y")))>>,
     <<RawExprStmt(RawAssign(Ident("y"), RawSubscript(Ident("x"), Ident("y"))))>>,
     <<RawExprStmt(RawSubscript(Ident("x"), Ident("y")))>>,
     <<RawForExpr(RawSubscript(Ident("x"), Ident("y")), Condition,
                  RawSubscript(Ident("y"), Ident("x")), RawBlock(<<>>))>>,
     <<RawExprStmt(RawAssign(RawFieldExpr(Ident("x"), "f"), Ident("y")))>>,
     <<RawExprStmt(RawAssign(RawPointer(Ident("x")), Ident("y")))>>,
     <<RawExprStmt(RawAssign(RawParen(Ident("x")), Ident("y")))>>,
     <<RawExprStmt(RawAssign(RawParen(RawParen(Ident("x"))), Ident("y")))>>,
     <<RawExprStmt(RawAssign(RawCall("f", Ident("x")), Ident("y")))>>,
     <<RawExprStmt(RawAssign(RawBinary(Ident("x"), "+", Ident("y")), Number))>>,
     <<RawExprStmt(RawCall("f", Ident("x")))>>,
     <<RawDeclInit("z", RawCall("f", Ident("x")))>>,
     <<RawExprStmt(RawPointer(RawCall("f", Ident("x"))))>>,
     <<RawExprStmt(RawAssign(RawParen(RawCall("f", Ident("x"))), Ident("y")))>>,
     <<RawExprStmt(Ident("x"))>>,
     <<RawBlock(<<RawExprStmt(Ident("x")), RawExprStmt(RawAssign(Ident("y"), Ident("x")))>>)>>,
     <<RawExprStmt(RawPointer(Ident("x")))>>,
     <<RawExprStmt(RawComma(RawAssign(Ident("x"), Ident("y")), Ident("y")))>>,
     <<RawExprStmt(RawComma(RawPostfix("x"), RawComma(Ident("x"), Ident("y"))))>>,
     <<RawExprStmt(RawBinary(Ident("x"), "+", Ident("y")))>>,
     <<RawExprStmt(RawParen(Ident("x")))>>}

ExpressionSources == {RawUnit(Prologue \o b \o Epilogue) : b \in ExpressionStatements}

\* Programs in which a handler meets a mode it does not support, between the
\* same two declarations and int r = x + y;
ModeStatements ==
    {<<RawSwitch(Ident("x"), RawBlock(<<RawExprStmt(RawAssign(Ident("x"), Ident("y")))>>))>>,
     <<RawSwitch(RawFieldExpr(Ident("x"), "f"), RawBlock(<<>>))>>,
     <<RawExprStmt(RawPointer(RawFieldExpr(Ident("x"), "f")))>>,
     <<RawExprStmt(RawAssign(Ident("y"), RawFieldExpr(Ident("x"), "f")))>>,
     <<RawExprStmt(RawAssign(RawParen(RawComma(Ident("x"), Ident("y"))), Number))>>,
     <<RawExprStmt(RawPointer(RawParen(RawComma(Ident("x"), Ident("y")))))>>,
     <<RawExprStmt(RawAssign(RawParen(RawBlock(<<RawExprStmt(Ident("x"))>>)), Ident("y")))>>,
     <<RawExprStmt(RawPointer(RawParen(RawBlock(<<RawExprStmt(Ident("x"))>>))))>>,
     <<RawWhile(Condition,
                RawBlock(<<RawExprStmt(RawAssign(Ident("y"), RawFieldExpr(Ident("x"), "f"))),
                           RawExprStmt(RawPointer(RawFieldExpr(Ident("x"), "f")))>>))>>}

\* Programs with a function definition or a return statement.
FunctionStatements ==
    {<<RawFunction("f", "p", <<RawDeclInit("z", Ident("p")),
                               RawExprStmt(RawAssign(Ident("x"), Ident("z")))>>)>>,
     <<RawFunction("f", "p", <<RawReturn(Ident("x"))>>)>>,
     <<RawFunction("f", "x", <<RawExprStmt(RawAssign(Ident("x"), Ident("y")))>>)>>,
     <<RawFunction("f", "p", <<RawWhile(Condition,
                                        RawBlock(<<RawExprStmt(RawAssign(Ident("y"), Ident("p")))>>)),
                               RawReturn(RawBinary(Ident("y"), "+", Ident("p")))>>)>>,
     <<RawDeclInit("z", Number),
       RawFunction("f", "z", <<RawExprStmt(RawPostfix("z"))>>),
       RawExprStmt(RawAssign(Ident("x"), Ident("z")))>>,
     <<RawReturn(Ident("x"))>>,
     <<RawWhile(Condition, RawBlock(<<RawExprStmt(RawPrefix("x")), RawReturn(Ident("y"))>>))>>,
     <<RawIfElse(RawBinary(Ident("y"), ">", Number),
                 RawBlock(<<RawExprStmt(RawAssign(Ident("x"), Ident("y")))>>),
                 RawBlock(<<RawExprStmt(RawPrefix("x"))>>))>>}

ScopeSources ==
    {RawUnit(Prologue \o b \o Epilogue) : b \in ModeStatements \cup FunctionStatements}

(***************************************************************************)
(* The call stack.  A frame is a running simulate_data_flow call: node n,  *)
(* mode m, the table vt it was given, the position pc in its plan and the  *)
(* tables loc it has created so far.                                       *)
(***************************************************************************)
Frame(node, mode, table) == [n |-> node, m |-> mode, vt |-> table, pc |-> 1, loc |-> <<>>]

Top == stack[Len(stack)]

\* The call the top frame makes next.
Current == due

TableOf(frame, tref) == IF tref = 0 THEN frame.vt ELSE frame.loc[tref]

Event(op, node, mode, table, other, owner) ==
    [op |-> op, n |-> node, m |-> mode, t |-> table, c |-> other, o |-> owner]

\* The unit a lookup of the token from the table yields (find_and_update
\* line 50, update handler line 269), kept in the record of the access.
SeenUnit(tbls, t, token) ==
    LET r == find_reference(tbls, t, token)
    IN  IF token \notin SPECIAL_TOKENS /\ r.found
        THEN UnitOf(r.tables, t, token)
        ELSE [lr |-> {}, lw |-> {}]

Observed(event, unit) == event @@ [u |-> unit]

\* The control flow between two calls on tables: a call whose plan is carried
\* out returns to its caller, and a due child.simulate_data_flow(table, mode)
\* is entered (and recorded in the trace).
NoCall == [op |-> "none", n |-> None, m |-> "o", t |-> 0, c |-> 0]

RECURSIVE Settle(_, _, _)
Settle(t, stk, tr) ==
    IF stk = <<>> THEN [stack |-> stk, trace |-> tr, due |-> NoCall]
    ELSE LET top == stk[Len(stk)]
             plan == Plan(t, top.n, top.m)
         IN  IF top.pc > Len(plan)
             THEN CHOOSE r \in {Settle(t, s, tr) : s \in {SubSeq(stk, 1, Len(stk) - 1)}} : TRUE
             ELSE LET call == plan[top.pc]
                  IN  IF call.op = "sim"
                      THEN CHOOSE r \in
                               {Settle(t, s, q) :
                                    s \in {Append([stk EXCEPT ![Len(stk)].pc = @ + 1],
                                                  Frame(call.n, call.m, TableOf(top, call.t)))},
                                    q \in {Append(tr, Event("sim", call.n, call.m,
                                                            TableOf(top, call.t), top.n, None))}} :
                               TRUE
                      ELSE [stack |-> stk, trace |-> tr, due |-> call]

\* The stack after the current call of the top frame has been made.
Advanced(stk) == [stk EXCEPT ![Len(stk)].pc = @ + 1]

Created(stk, table) == [stk EXCEPT ![Len(stk)].loc = Append(@, table)]

\* The current call has been made and recorded as event.
Continue(stk, event) ==
    \E next \in {Settle(tree, stk, Append(trace, event))} :
        /\ stack' = next.stack
        /\ due' = next.due
        /\ trace' = next.trace
        /\ status' = IF next.stack = <<>> THEN "done" ELSE "running"

\* A handler that catches the error of the current call and goes on with
\* its next call.
Fail_Resumed(event) == Continue(Advanced(stack), event)

\* The current call raised: every enclosing handler re-raises.
Fail(event) ==
    /\ stack' = <<>>
    /\ due' = NoCall
    /\ trace' = Append(trace, event)
    /\ status' = "error"

\* The table that holds the local binding a lookup from t reaches.
RECURSIVE Owner(_, _, _)
Owner(tbls, t, token) ==
    IF token \in DOMAIN tbls[t].local_variables THEN t
    ELSE IF tbls[t].father = None THEN None
    ELSE Owner(tbls, tbls[t].father, token)

Due(op) == status = "running" /\ Current.op = op

Start(t) ==
    Settle(t, <<Frame(0, "o", 1)>>, <<Event("sim", 0, "o", 1, None, None)>>)

\* No second simulation is running.
NoPeer == [status |-> "none"]

\* The caller has built the tree and called root.simulate_data_flow on an
\* empty table; when the construction of the tree raised there is no tree
\* and nothing is simulated.
Init ==
    /\ source \in Sources \cup ErrorSources \cup ExpressionSources \cup ScopeSources
    /\ IF ConstructionRaises(source)
       THEN /\ tree = <<>>
            /\ tables = <<>>
            /\ stack = <<>>
            /\ due = NoCall
            /\ trace = <<>>
            /\ status = "grammar_error"
       ELSE /\ tree = Build(source)
            /\ tables = <<VariableTable(None)>>
            /\ stack = Start(tree).stack
            /\ due = Start(tree).due
            /\ trace = Start(tree).trace
            /\ status = IF stack = <<>> THEN "done" ELSE "running"
    /\ last_read = [n \in Nodes(tree) |-> {}]
    /\ last_write = [n \in Nodes(tree) |-> {}]
    /\ computed_from = [n \in Nodes(tree) |-> <<>>]
    /\ peer = NoPeer

\* table.add_variable_table()
AddVariableTable ==
    /\ Due("add_variable_table")
    /\ LET table == TableOf(Top, Current.t)
       IN  /\ tables' = add_variable_table(tables, table)
           /\ Continue(Advanced(Created(stack, Len(tables) + 1)),
                       Event("add_variable_table", Top.n, Top.m, table, Len(tables) + 1, None))
    /\ UNCHANGED <<peer, source, tree, last_read, last_write, computed_from>>

\* VariableTable(table)
NewVariableTable ==
    /\ Due("VariableTable")
    /\ LET table == TableOf(Top, Current.t)
       IN  /\ tables' = Append(tables, VariableTable(table))
           /\ Continue(Advanced(Created(stack, Len(tables) + 1)),
                       Event("VariableTable", Top.n, Top.m, table, Len(tables) + 1, None))
    /\ UNCHANGED <<peer, source, tree, last_read, last_write, computed_from>>

\* table.child = other
SetChildSlot ==
    /\ Due("set_child")
    /\ LET table == TableOf(Top, Current.t)
           other == TableOf(Top, Current.c)
       IN  /\ tables' = [tables EXCEPT ![table].child = other]
           /\ Continue(Advanced(stack), Event("set_child", Top.n, Top.m, table, other, None))
    /\ UNCHANGED <<peer, source, tree, last_read, last_write, computed_from>>

\* table.pop_self()
PopSelf ==
    /\ Due("pop_self")
    /\ LET table == TableOf(Top, Current.t)
           event == Event("pop_self", Top.n, Top.m, table, tables[table].father, None)
       IN  IF tables[table].father = None
           THEN Fail(event) /\ UNCHANGED tables
           ELSE Continue(Advanced(stack), event) /\ tables' = pop_self(tables, table)
    /\ UNCHANGED <<peer, source, tree, last_read, last_write, computed_from>>

\* table.merge_and_pop_self()
MergeAndPopSelf ==
    /\ Due("merge_and_pop_self")
    /\ LET table == TableOf(Top, Current.t)
           event == Event("merge_and_pop_self", Top.n, Top.m, table, tables[table].father, None)
       IN  IF tables[table].father = None
           THEN Fail(event) /\ UNCHANGED tables
           ELSE /\ tables' = merge_and_pop_self(tables, table)
                /\ IF merge_raises(tables, table)
                   THEN Fail(event)
                   ELSE Continue(Advanced(stack), event)
    /\ UNCHANGED <<peer, source, tree, last_read, last_write, computed_from>>

\* table.find_and_update(node.token, node, mode)
FindAndUpdate ==
    /\ Due("find_and_update")
    /\ LET table == TableOf(Top, Current.t)
           node == Current.n
           r == find_and_update(tables, last_read, last_write, table,
                                tree[node].token, node, Current.m)
           event == Observed(Event(Current.m, node, Top.m, table, None,
                                   Owner(tables, table, tree[node].token)),
                             SeenUnit(tables, table, tree[node].token))
       IN  /\ tables' = r.tables
           /\ last_read' = r.last_read
           /\ last_write' = r.last_write
           /\ IF r.raised THEN Fail(event) ELSE Continue(Advanced(stack), event)
    /\ UNCHANGED <<peer, source, tree, computed_from>>

\* table.add_reference(node.token, node)
AddReference ==
    /\ Due("add_reference")
    /\ LET table == TableOf(Top, Current.t)
           node == Current.n
       IN  /\ tables' = add_reference(tables, table, tree[node].token, node)
           /\ Continue(Advanced(stack), Event("add", node, Top.m, table, None, table))
    /\ UNCHANGED <<peer, source, tree, last_read, last_write, computed_from>>

\* The body of the update_expression handler.
UpdateExpression ==
    /\ Due("update_expression")
    /\ LET table == TableOf(Top, Current.t)
           node == Current.n
           r == update_expression(tables, last_read, last_write, table,
                                  tree[node].token, node)
           event == Observed(Event("rw", node, Top.m, table, None,
                                   Owner(tables, table, tree[node].token)),
                             SeenUnit(tables, table, tree[node].token))
       IN  /\ tables' = r.tables
           /\ last_read' = r.last_read
           /\ last_write' = r.last_write
           /\ IF r.raised THEN Fail(event) ELSE Continue(Advanced(stack), event)
    /\ UNCHANGED <<peer, source, tree, computed_from>>

\* raise ValueError(...) in a handler
RaiseError ==
    /\ Due("raise")
    /\ Fail(Event("raise", Top.n, Top.m, Top.vt, None, None))
    /\ UNCHANGED <<peer, source, tree, tables, last_read, last_write, computed_from>>

Next ==
    \/ AddVariableTable
    \/ NewVariableTable
    \/ SetChildSlot
    \/ PopSelf
    \/ MergeAndPopSelf
    \/ FindAndUpdate
    \/ AddReference
    \/ UpdateExpression
    \/ RaiseError

Spec == Init /\ [][Next]_vars

(***************************************************************************)
(* VariableTable used directly.  The class is public: a caller holds       *)
(* tables and identifier nodes and calls the methods in any order, with    *)
(* any of the update modes.  ApiSpec makes at most MaxCalls calls on the   *)
(* tables created so far, starting from one empty table, with the          *)
(* identifier nodes of a small tree as the nodes passed in.                *)
(***************************************************************************)
MaxCalls == 4

ApiSources ==
    {RawUnit(<<Ident("x"), Ident("x"), Ident(s)>>) : s \in {"cin", "cout", "endl"}}

Identifiers(t) == {n \in Nodes(t) : t[n].type = "identifier"}

ApiInit ==
    /\ source \in ApiSources
    /\ tree = Build(source)
    /\ tables = <<VariableTable(None)>>
    /\ last_read = [n \in Nodes(tree) |-> {}]
    /\ last_write = [n \in Nodes(tree) |-> {}]
    /\ computed_from = [n \in Nodes(tree) |-> <<>>]
    /\ stack = <<>>
    /\ due = NoCall
    /\ trace = <<>>
    /\ status = "api"
    /\ peer = NoPeer

CanCall == status = "api" /\ Len(trace) < MaxCalls

\* The call returned (or raised), and is recorded.
Called(event, raised) ==
    /\ trace' = Append(trace, event)
    /\ status' = IF raised THEN "error" ELSE "api"
    /\ UNCHANGED <<peer, source, tree, computed_from, stack, due>>

\* table.add_reference(node.token, node)
CallAddReference ==
    /\ CanCall
    /\ \E t \in DOMAIN tables, n \in Identifiers(tree) :
          /\ tables' = add_reference(tables, t, tree[n].token, n)
          /\ Called(Event("add", n, "d", t, None, t), FALSE)
    /\ UNCHANGED <<last_read, last_write>>

\* table.find_and_update(node.token, node, mode)
CallFindAndUpdate ==
    /\ CanCall
    /\ \E t \in DOMAIN tables, n \in Identifiers(tree), mode \in UPDATE_MODE :
          LET r == find_and_update(tables, last_read, last_write, t, tree[n].token, n, mode)
          IN  /\ tables' = r.tables
              /\ last_read' = r.last_read
              /\ last_write' = r.last_write
              /\ Called(Observed(Event(mode, n, "o", t, None, Owner(tables, t, tree[n].token)),
                                 SeenUnit(tables, t, tree[n].token)),
                        r.raised)

\* table.add_variable_table()
CallAddVariableTable ==
    /\ CanCall
    /\ \E t \in DOMAIN tables :
          /\ tables' = add_variable_table(tables, t)
          /\ Called(Event("add_variable_table", None, "o", t, Len(tables) + 1, None), FALSE)
    /\ UNCHANGED <<last_read, last_write>>

\* table.pop_self(); on a table without father line 83 raises.
CallPopSelf ==
    /\ CanCall
    /\ \E t \in DOMAIN tables :
          LET event == Event("pop_self", None, "o", t, tables[t].father, None)
          IN  IF tables[t].father = None
              THEN Called(event, TRUE) /\ UNCHANGED tables
              ELSE Called(event, FALSE) /\ tables' = pop_self(tables, t)
    /\ UNCHANGED <<last_read, last_write>>

\* table.merge_and_pop_self(); on a table without father line 93 raises.
CallMergeAndPopSelf ==
    /\ CanCall
    /\ \E t \in DOMAIN tables :
          LET event == Event("merge_and_pop_self", None, "o", t, tables[t].father, None)
          IN  IF tables[t].father = None
              THEN Called(event, TRUE) /\ UNCHANGED tables
              ELSE /\ tables' = merge_and_pop_self(tables, t)
                   /\ Called(event, merge_raises(tables, t))
    /\ UNCHANGED <<last_read, last_write>>

ApiNext ==
    \/ CallAddReference
    \/ CallFindAndUpdate
    \/ CallAddVariableTable
    \/ CallPopSelf
    \/ CallMergeAndPopSelf

ApiSpec == ApiInit /\ [][ApiNext]_vars

(***************************************************************************)
(* Two files.  Each file has its own tree, its own root table and its own  *)
(* call stack; the tables of both live in the one heap (tables).  The      *)
(* variables hold the simulation that is running, peer holds the other     *)
(* one, and Switch hands the processor to the other one between any two    *)
(* calls, which gives every interleaving of the steps of the two.          *)
(***************************************************************************)
PairStatements ==
    {<<RawIfElse(Condition,
                 RawBlock(<<RawExprStmt(RawAssign(Ident("x"), Ident("y")))>>),
                 RawBlock(<<RawExprStmt(RawPrefix("x"))>>))>>,
     <<RawWhile(Condition, RawBlock(<<RawDeclInit("z", Ident("x"))>>))>>,
     <<RawDeclInit("z", Ident("y")),
       RawExprStmt(RawAssign(RawCall("f", Ident("x")), Ident("y")))>>}

PairSources == {RawUnit(Prologue \o b \o Epilogue) : b \in PairStatements}

\* root.simulate_data_flow(table, "o") up to its first call on a table.
StartAt(t, root) ==
    Settle(t, <<Frame(0, "o", root)>>, <<Event("sim", 0, "o", root, None, None)>>)

\* A simulation that is not running: its file, its tree with the
\* annotations, its call stack and the events so far.
Parked(src, t, lrd, lwr, cf, stk, call, tr, st) ==
    [source |-> src, tree |-> t, last_read |-> lrd, last_write |-> lwr,
     computed_from |-> cf, stack |-> stk, due |-> call, trace |-> tr, status |-> st]

\* A simulation of src about to start on the empty table root.
Context(src, root) ==
    CHOOSE c \in UNION {{Parked(src, t, [n \in Nodes(t) |-> {}], [n \in Nodes(t) |-> {}],
                                [n \in Nodes(t) |-> <<>>], start.stack, start.due, start.trace,
                                IF start.stack = <<>> THEN "done" ELSE "running")
                            : start \in {StartAt(t, root)}}
                          : t \in {Build(src)}} : TRUE

PairInit ==
    /\ source \in PairSources
    /\ tree = Build(source)
    /\ tables = <<VariableTable(None), VariableTable(None)>>
    /\ stack = StartAt(tree, 1).stack
    /\ due = StartAt(tree, 1).due
    /\ trace = StartAt(tree, 1).trace
    /\ status = IF stack = <<>> THEN "done" ELSE "running"
    /\ last_read = [n \in Nodes(tree) |-> {}]
    /\ last_write = [n \in Nodes(tree) |-> {}]
    /\ computed_from = [n \in Nodes(tree) |-> <<>>]
    /\ peer \in {Context(b, 2) : b \in PairSources}

\* The other simulation runs next.
Switch ==
    /\ peer # NoPeer
    /\ peer' = Parked(source, tree, last_read, last_write, computed_from,
                       stack, due, trace, status)
    /\ source' = peer.source
    /\ tree' = peer.tree
    /\ last_read' = peer.last_read
    /\ last_write' = peer.last_write
    /\ computed_from' = peer.computed_from
    /\ stack' = peer.stack
    /\ due' = peer.due
    /\ trace' = peer.trace
    /\ status' = peer.status
    /\ UNCHANGED tables

PairNext ==
    \/ Next
    \/ Switch

PairSpec == PairInit /\ [][PairNext]_vars

(***************************************************************************)
(* One file on its own: the call due is made, as a function of the state   *)
(* of the simulation, and the simulation is run to its end.                *)
(***************************************************************************)
Step(t, s) ==
    LET top == s.stack[Len(s.stack)]
        call == s.due
        table == TableOf(top, call.t)
        Go(stk, tbls, lrd, lwr) ==
            LET next == Settle(t, stk, <<>>)
            IN  [tables |-> tbls, last_read |-> lrd, last_write |-> lwr,
                 stack |-> next.stack, due |-> next.due,
                 status |-> IF next.stack = <<>> THEN "done" ELSE "running"]
        Stop(tbls) ==
            [tables |-> tbls, last_read |-> s.last_read, last_write |-> s.last_write,
             stack |-> <<>>, due |-> NoCall, status |-> "error"]
    IN  CASE call.op = "add_variable_table" ->
               Go(Advanced(Created(s.stack, Len(s.tables) + 1)),
                  add_variable_table(s.tables, table), s.last_read, s.last_write)
          [] call.op = "VariableTable" ->
               Go(Advanced(Created(s.stack, Len(s.tables) + 1)),
                  Append(s.tables, VariableTable(table)), s.last_read, s.last_write)
          [] call.op = "set_child" ->
               Go(Advanced(s.stack),
                  [s.tables EXCEPT ![table].child = TableOf(top, call.c)],
                  s.last_read, s.last_write)
          [] call.op = "pop_self" ->
               IF s.tables[table].father = None THEN Stop(s.tables)
               ELSE Go(Advanced(s.stack), pop_self(s.tables, table), s.last_read, s.last_write)
          [] call.op = "merge_and_pop_self" ->
               IF s.tables[table].father = None THEN Stop(s.tables)
               ELSE IF merge_raises(s.tables, table)
               THEN Stop(merge_and_pop_self(s.tables, table))
               ELSE Go(Advanced(s.stack), merge_and_pop_self(s.tables, table),
                       s.last_read, s.last_write)
          [] call.op = "find_and_update" ->
               LET r == find_and_update(s.tables, s.last_read, s.last_write, table,
                                        t[call.n].token, call.n, call.m)
               IN  IF r.raised THEN Stop(r.tables)
                   ELSE Go(Advanced(s.stack), r.tables, r.last_read, r.last_write)
          [] call.op = "add_reference" ->
               Go(Advanced(s.stack), add_reference(s.tables, table, t[call.n].token, call.n),
                  s.last_read, s.last_write)
          [] call.op = "update_expression" ->
               LET r == update_expression(s.tables, s.last_read, s.last_write, table,
                                          t[call.n].token, call.n)
               IN  IF r.raised THEN Stop(r.tables)
                   ELSE Go(Advanced(s.stack), r.tables, r.last_read, r.last_write)
          [] OTHER -> Stop(s.tables)

RECURSIVE Run(_, _)
Run(t, s) == IF s.status # "running" THEN s ELSE Run(t, Step(t, s))

\* The simulation of src run alone on an empty table, at its end.
Alone(src) ==
    LET c == Context(src, 1)
    IN  Run(c.tree, [tables |-> <<VariableTable(None)>>,
                     last_read |-> c.last_read, last_write |-> c.last_write,
                     stack |-> c.stack, due |-> c.due, status |-> c.status])

(***************************************************************************)
(* Vocabulary of the properties.                                           *)
(***************************************************************************)
Tokens == {"x", "y", "z", "i", "r", "f", "p"}

\* The nearest table, from t up the father chain, that holds a unit for the token.
RECURSIVE Holder(_, _, _)
Holder(tbls, t, token) ==
    IF t = None THEN None
    ELSE IF token \in DOMAIN tbls[t].local_variables \cup DOMAIN tbls[t].outer_variables THEN t
    ELSE Holder(tbls, tbls[t].father, token)

\* The unit a lookup of the token from t yields.
VisibleUnit(tbls, t, token) == UnitOf(tbls, Holder(tbls, t, token), token)

\* The names a table binds: its own and the cached ones.
BoundNames(tbls, t) == DOMAIN tbls[t].local_variables \cup DOMAIN tbls[t].outer_variables

\* The identifier declared by a declaration `type name = value;` and its value.
DeclaredIdentifier(t, d) ==
    child_by_field_name(t, child_by_field_name(t, d, "declarator"), "declarator")

InitValue(t, d) ==
    child_by_field_name(t, child_by_field_name(t, d, "declarator"), "value")

\* The node has been passed to find_and_update, add_reference or the update handler.
Accessed(n) == \E i \in 1..Len(trace) : trace[i].n = n /\ trace[i].op \in {"ro", "wo", "rw", "add"}

(***************************************************************************)
(* C10.  int a = 1; int b = a + 1;                                         *)
(***************************************************************************)
\* The first two statements of the file are the two declarations.
FirstDeclared == DeclaredIdentifier(tree, tree[0].children[1])

FirstReadInSecond == child_by_field_name(tree, InitValue(tree, tree[0].children[2]), "left")

\* C10: for `int a = 1; int b = a + 1;` the identifier a read in b's
\* initializer has last_write equal to exactly {the declarator node of a}.
C10_ReadOfDeclared ==
    Accessed(FirstReadInSecond) => last_write[FirstReadInSecond] = {FirstDeclared}

C10_Witness ==
    /\ tree # <<>>
    /\ tree[FirstDeclared].token = tree[FirstReadInSecond].token
    /\ tree[FirstDeclared].father # tree[FirstReadInSecond].father
    /\ \E i \in 1..Len(trace) : trace[i].op = "add" /\ trace[i].n = FirstDeclared
    /\ \E i \in 1..Len(trace) : trace[i].op = "ro" /\ trace[i].n = FirstReadInSecond
    /\ last_write[FirstReadInSecond] = {FirstDeclared}

(***************************************************************************)
(* C9.  Update expressions.                                                *)
(***************************************************************************)
\* C9: for x++ / ++x / x-- / --x on a bound x the operand node's own
\* last_read and last_write each contain the node itself together with the
\* variable's previous last_read / last_write, and afterwards the variable's
\* unit has last_read = last_write = {that node}.
C9_UpdateSelfEdge ==
    [][Due("update_expression") /\ status' # "error" =>
         LET n == Current.n
             t == TableOf(Top, Current.t)
             previous == VisibleUnit(tables, t, tree[n].token)
         IN  /\ {n} \cup previous.lr \subseteq last_read'[n]
             /\ {n} \cup previous.lw \subseteq last_write'[n]
             /\ VisibleUnit(tables', t, tree[n].token) = [lr |-> {n}, lw |-> {n}]]_vars

C9_Witness ==
    \E i \in 1..Len(trace) :
        /\ trace[i].op = "rw"
        /\ tree[tree[trace[i].n].father].type = "update_expression"
        /\ trace[i].n \in last_read[trace[i].n] \cap last_write[trace[i].n]
        /\ Cardinality(last_write[trace[i].n]) > 1
        /\ status = "done"

(***************************************************************************)
(* C2.  Compound statements.                                               *)
(***************************************************************************)
\* The table and its ancestors.
RECURSIVE Ancestry(_, _)
Ancestry(tbls, t) == IF t = None THEN {} ELSE {t} \cup Ancestry(tbls, tbls[t].father)

\* Event i is a call child.simulate_data_flow(table, mode).
IsCall(i) == trace[i].op = "sim"

\* Event i is a declaration, a read, a write or an update of a binding.
IsAccess(i) == trace[i].op \in {"add", "ro", "wo", "rw"}

\* The call of event i has returned and nothing outside its subtree has
\* touched a table since.
JustReturned(i) ==
    /\ IsCall(i)
    /\ \A f \in 1..Len(stack) : ~IsWithin(tree, stack[f].n, trace[i].n)
    /\ \A k \in (i + 1)..Len(trace) : IsCall(k) \/ IsWithin(tree, trace[k].n, trace[i].n)

\* The token was declared in the table of event i, or above it, before event i.
BoundBefore(i, token) ==
    \E k \in 1..(i - 1) :
        /\ trace[k].op = "add"
        /\ tree[trace[k].n].token = token
        /\ trace[k].t \in Ancestry(tables, trace[i].t)

\* C2: every compound statement is simulated in a fresh scope that is popped
\* on exit: a variable declared inside a compound statement (and not bound
\* outside it) is not returned by find_reference on the enclosing scope once
\* the compound statement has been simulated.
C2_ScopeLocality ==
    \A i \in 1..Len(trace) :
        tree[trace[i].n].type = "compound_statement" /\ JustReturned(i) =>
            \A k \in (i + 1)..Len(trace) :
                trace[k].op = "add" /\ ~BoundBefore(i, tree[trace[k].n].token) =>
                    ~find_reference(tables, trace[i].t, tree[trace[k].n].token).found

(***************************************************************************)
(* C7.  The calls of the for handler.                                      *)
(***************************************************************************)
\* Event a opens a scope and event k closes that scope.
Closes(a, k) ==
    /\ a < k
    /\ trace[a].op \in {"add_variable_table", "VariableTable"}
    /\ trace[k].op \in {"pop_self", "merge_and_pop_self"}
    /\ trace[k].t = trace[a].c

\* The nodes the handler of node f called simulate_data_flow on from event a
\* to event k, in order.
CalleesOf(f, a, k) ==
    LET calls == SelectSeq(SubSeq(trace, a, k), LAMBDA e : e.op = "sim" /\ e.c = f)
    IN  [j \in 1..Len(calls) |-> calls[j].n]

Present(n) == IF n = None THEN <<>> ELSE <<n>>

\* C7: simulating a for statement simulates the initializer once and then
\* the sequence condition, body, update twice before the loop scope is
\* popped: each of them that is present exactly two times, in the order
\* condition, body, update, condition, body, update.
C7_ForPassesTwice ==
    \A a \in 1..Len(trace) :
        trace[a].op = "add_variable_table" /\ tree[trace[a].n].class = "ForStatement" =>
            \A k \in (a + 1)..Len(trace) :
                Closes(a, k) =>
                    LET f == trace[a].n
                        pass == Present(ForField(tree, f, "condition"))
                                \o <<ForLoopBody(tree, f)>>
                                \o Present(ForField(tree, f, "update"))
                    IN  CalleesOf(f, a, k)
                            = Present(ForField(tree, f, "initializer")) \o pass \o pass

(***************************************************************************)
(* C3, C4, C5.  Scopes and their fathers.                                  *)
(***************************************************************************)
TokenOf(i) == tree[trace[i].n].token

\* The table was created and has not been closed.
IsOpen(t) ==
    /\ \E a \in 1..Len(trace) :
           trace[a].op \in {"add_variable_table", "VariableTable"} /\ trace[a].c = t
    /\ ~\E k \in 1..Len(trace) :
           trace[k].op \in {"pop_self", "merge_and_pop_self"} /\ trace[k].t = t

\* The table was closed with pop_self.
IsPopped(t) == \E k \in 1..Len(trace) : trace[k].op = "pop_self" /\ trace[k].t = t

\* The names find_reference resolves from a table.
VisibleNames(tbls, t) == {k \in Tokens : find_reference(tbls, t, k).found}

\* The nearest table, from t up, that binds the token itself (the defining scope).
DefiningScope(tbls, t, token) == Owner(tbls, t, token)

\* The tables from t up to the table a (a not included).
RECURSIVE Below(_, _, _)
Below(tbls, t, a) ==
    IF t = None \/ t = a THEN {} ELSE {t} \cup Below(tbls, tbls[t].father, a)

\* C3: if a scope below the defining scope looked up a name bound in an
\* ancestor and changed it with find_and_update, then once every scope
\* between them has been closed with pop_self (and the name has not been
\* touched since the innermost one was popped) the ancestor's binding holds
\* exactly the last_read / last_write state the innermost scope had when it
\* was popped.
C3_WriteBackOnPop ==
    \A p \in 1..Len(trace) :
        trace[p].op = "pop_self" =>
            LET t == trace[p].t
                f == tables[t].father
            IN  \A k \in DOMAIN tables[t].outer_variables \ DOMAIN tables[t].local_variables :
                    /\ \E j \in 1..(p - 1) :
                           trace[j].t = t /\ trace[j].op \in {"ro", "wo", "rw"} /\ TokenOf(j) = k
                    /\ \A j \in (p + 1)..Len(trace) : IsAccess(j) => TokenOf(j) # k
                    => LET defining == DefiningScope(tables, f, k)
                       IN  \A a \in Below(tables, f, defining) \cup {defining} :
                               (\A c \in Below(tables, t, a) : IsPopped(c)) =>
                                   /\ k \in BoundNames(tables, a)
                                   /\ UnitOf(tables, a, k) = tables[t].outer_variables[k]

\* A scope two levels below the defining scope changed the name and both
\* scopes have been popped.
C3_Witness ==
    \E p \in 1..Len(trace) :
        /\ trace[p].op = "pop_self"
        /\ LET t == trace[p].t
               f == tables[t].father
           IN  \E k \in DOMAIN tables[t].outer_variables \ DOMAIN tables[t].local_variables :
                   /\ \E j \in 1..(p - 1) :
                          trace[j].t = t /\ trace[j].op = "wo" /\ TokenOf(j) = k
                   /\ \A j \in (p + 1)..Len(trace) : IsAccess(j) => TokenOf(j) # k
                   /\ IsPopped(f)
                   /\ DefiningScope(tables, f, k) = tables[f].father
                   /\ tables[tables[f].father].local_variables[k] = tables[t].outer_variables[k]

\* The table and every table above it are still in use: none of them has
\* been closed.
InScope(t) == \A u \in Ancestry(tables, t) : tables[u].father = None \/ IsOpen(u)

\* The name the call due binds in the table f itself, if it is an
\* add_reference on f.
DeclaredIn(f) ==
    IF Due("add_reference") /\ TableOf(Top, Current.t) = f
    THEN {tree[Current.n].token} \ SPECIAL_TOKENS
    ELSE {}

\* The call due closes the table t.
Closing(t) ==
    /\ Due("pop_self") \/ Due("merge_and_pop_self")
    /\ TableOf(Top, Current.t) = t
    /\ status' # "error"

UpdatesInherited(t, token) ==
    /\ Due("find_and_update") \/ Due("update_expression")
    /\ TableOf(Top, Current.t) = t
    /\ tree[Current.n].token = token
    /\ token \notin DOMAIN tables[t].local_variables
    /\ tables[t].father # None
    /\ status' # "error"

\* C5: while a child scope is open, find_and_update (or an update
\* expression) on a name the child inherited from an ancestor changes only
\* the child's private copy in outer_variables: the unit the father and
\* every other ancestor hold or resolve for that name is unchanged, and so
\* are all units of other names.
C5_CopyIsolation ==
    [][\A t \in 1..Len(tables), token \in Tokens :
          UpdatesInherited(t, token) =>
              /\ token \in DOMAIN tables'[t].outer_variables
              /\ tables'[t].local_variables = tables[t].local_variables
              /\ \A a \in Ancestry(tables, tables[t].father) :
                     /\ IF Holder(tables, a, token) = None
                        THEN Holder(tables', a, token) = None
                        ELSE VisibleUnit(tables', a, token) = VisibleUnit(tables, a, token)
                     /\ token \in BoundNames(tables, a) =>
                            UnitOf(tables', a, token) = UnitOf(tables, a, token)
              /\ \A u \in 1..Len(tables) :
                     \A k \in BoundNames(tables, u) \ {token} :
                         /\ k \in BoundNames(tables', u)
                         /\ UnitOf(tables', u, k) = UnitOf(tables, u, k)]_vars

\* An open scope holds a copy of an inherited unit that differs from the
\* unit its father holds for the name.
C5_Witness ==
    \E t \in 1..Len(tables) :
        /\ IsOpen(t)
        /\ \E k \in DOMAIN tables[t].outer_variables \ DOMAIN tables[t].local_variables :
               /\ k \in BoundNames(tables, tables[t].father)
               /\ tables[t].outer_variables[k] # UnitOf(tables, tables[t].father, k)
               /\ \E j \in 1..Len(trace) :
                      trace[j].t = t /\ trace[j].op \in {"ro", "wo", "rw"} /\ TokenOf(j) = k

(***************************************************************************)
(* C1, C6, C8.  Writes that reach a read.                                  *)
(***************************************************************************)
\* The greatest and the least member of a set of positions (0 for none).
Latest(S) == IF S = {} THEN 0 ELSE CHOOSE j \in S : \A i \in S : i <= j

Earliest(S) == IF S = {} THEN 0 ELSE CHOOSE j \in S : \A i \in S : j <= i

\* The events from a to k in which a node below b sets the last writer of
\* the token's binding that table d defines.
WritesIn(b, a, k, token, d) ==
    {j \in a..k : /\ trace[j].op \in {"wo", "rw"}
                  /\ TokenOf(j) = token
                  /\ trace[j].o = d
                  /\ IsWithin(tree, trace[j].n, b)}

\* The first event after k that touches the token's binding defined by d.
FirstAccessAfter(k, token, d) ==
    Earliest({j \in (k + 1)..Len(trace) :
                 IsAccess(j) /\ TokenOf(j) = token /\ trace[j].o = d})

\* One of the tables is the other or an ancestor of it.
OnOneChain(t, u) == t \in Ancestry(tables, u) \/ u \in Ancestry(tables, t)

\* C1: for an if statement whose consequence assigns x and whose alternative
\* assigns x (x bound before the if), the first read of x simulated after
\* the if statement (the next event on x, in a scope on the chain of the
\* scope of the if) has a last_write set that contains both branch
\* assignment nodes (in each branch the last node that wrote x).
C1_BranchUnion ==
    \A a \in 1..Len(trace) :
        trace[a].op = "add_variable_table" /\ tree[trace[a].n].class = "IfStatement" =>
            \A k \in (a + 1)..Len(trace) :
                Closes(a, k) /\ Len(IfBranches(tree, trace[a].n)) = 2 =>
                    \A token \in Tokens, d \in Ancestry(tables, trace[a].t) :
                        LET branches == IfBranches(tree, trace[a].n)
                            w1 == Latest(WritesIn(branches[1], a, k, token, d))
                            w2 == Latest(WritesIn(branches[2], a, k, token, d))
                            r == FirstAccessAfter(k, token, d)
                        IN  /\ w1 # 0
                            /\ w2 # 0
                            /\ r # 0
                            /\ trace[r].op = "ro"
                            /\ OnOneChain(trace[r].t, trace[a].t)
                            => {trace[w1].n, trace[w2].n} \subseteq last_write[trace[r].n]

C1_Witness ==
    \E a, k \in 1..Len(trace) :
        /\ trace[a].op = "add_variable_table"
        /\ tree[trace[a].n].class = "IfStatement"
        /\ Closes(a, k)
        /\ Len(IfBranches(tree, trace[a].n)) = 2
        /\ LET branches == IfBranches(tree, trace[a].n)
               w1 == Latest(WritesIn(branches[1], a, k, "x", 1))
               w2 == Latest(WritesIn(branches[2], a, k, "x", 1))
               r == FirstAccessAfter(k, "x", 1)
           IN  /\ w1 # 0 /\ trace[w1].op = "wo"
               /\ w2 # 0 /\ trace[w2].op = "wo"
               /\ r # 0
               /\ trace[r].op = "ro"
               /\ trace[w1].n # trace[w2].n
               /\ {trace[w1].n, trace[w2].n} \subseteq last_write[trace[r].n]

\* C6: for a for statement whose body assigns y (y bound before the loop),
\* the first read of y simulated after the loop (the next event on y, in a
\* scope on the chain of the scope of the loop) has the body's assignment
\* node (the last node of the body that wrote y) in its last_write.
C6_LoopWriteReachesRead ==
    \A a \in 1..Len(trace) :
        trace[a].op = "add_variable_table" /\ tree[trace[a].n].class = "ForStatement" =>
            \A k \in (a + 1)..Len(trace) :
                Closes(a, k) =>
                    \A token \in Tokens, d \in Ancestry(tables, trace[a].t) :
                        LET w == Latest(WritesIn(ForLoopBody(tree, trace[a].n), a, k, token, d))
                            r == FirstAccessAfter(k, token, d)
                        IN  /\ w # 0
                            /\ r # 0
                            /\ trace[r].op = "ro"
                            /\ OnOneChain(trace[r].t, trace[a].t)
                            => trace[w].n \in last_write[trace[r].n]

C6_Witness ==
    \E a, k \in 1..Len(trace) :
        /\ trace[a].op = "add_variable_table"
        /\ tree[trace[a].n].class = "ForStatement"
        /\ Closes(a, k)
        /\ LET w == Latest(WritesIn(ForLoopBody(tree, trace[a].n), a, k, "x", 1))
               r == FirstAccessAfter(k, "x", 1)
           IN  /\ w # 0
               /\ trace[w].op = "wo"
               /\ r # 0
               /\ trace[r].op = "ro"
               /\ trace[w].n \in last_write[trace[r].n]

LoopClasses == {"ForStatement", "WhileStatement", "DoStatement"}

\* Event j reads, for the second time or later, an identifier the loop read
\* before the write of event w; the write is of the same binding and no
\* other write or declaration of it lies between w and j.
ReadsAgainAfter(a, w, j) ==
    /\ trace[j].op = "ro"
    /\ TokenOf(j) = TokenOf(w)
    /\ trace[j].o = trace[w].o
    /\ \E i \in a..(w - 1) :
           trace[i].op = "ro" /\ trace[i].n = trace[j].n /\ trace[i].o = trace[w].o
    /\ \A v \in (w + 1)..(j - 1) :
           trace[v].op \in {"wo", "rw", "add"} /\ TokenOf(v) = TokenOf(w) =>
               trace[v].o # trace[w].o

\* C8: in a for, while or do statement, an identifier read in the condition
\* or body that comes before a write of the same variable later in the loop
\* (body or update; a write that no other write or declaration of the
\* variable follows before the read is simulated again) has that write node
\* in its last_write after the loop has been simulated.
C8_LoopCarried ==
    \A a \in 1..Len(trace) :
        trace[a].op = "add_variable_table" /\ tree[trace[a].n].class \in LoopClasses =>
            \A k \in (a + 1)..Len(trace) :
                Closes(a, k) =>
                    \A w \in (a + 1)..(k - 1) :
                        trace[w].op \in {"wo", "rw"} =>
                            \A j \in (w + 1)..(k - 1) :
                                ReadsAgainAfter(a, w, j) =>
                                    trace[w].n \in last_write[trace[j].n]

\* A while statement whose condition reads x and whose body writes x.
C8_Witness ==
    \E a, k \in 1..Len(trace) :
        /\ trace[a].op = "add_variable_table"
        /\ tree[trace[a].n].class = "WhileStatement"
        /\ Closes(a, k)
        /\ \E w \in (a + 1)..(k - 1), j \in (a + 1)..(k - 1) :
               /\ w < j
               /\ trace[w].op = "wo"
               /\ ReadsAgainAfter(a, w, j)
               /\ tree[tree[tree[trace[j].n].father].father].type = "condition_clause"
               /\ trace[w].n \in last_write[trace[j].n]

(***************************************************************************)
(* C11.  computed_from.                                                    *)
(***************************************************************************)
Range(seq) == {seq[i] : i \in DOMAIN seq}

IdentifierLeaves(t, n) ==
    {l \in Range(get_named_leaf(t, n)) : t[l].type = "identifier"}

\* The nodes that assign or initialize: `left = right` and `declarator = value`.
Assigning(t) ==
    {n \in Nodes(t) : t[n].type \in {"assignment_expression", "init_declarator"}}

Target(t, n) == t[n].children[1]

Assigned(t, n) == t[n].children[3]

\* C11: once `int a = 1; int b = a + 1;` has been simulated the declarator
\* of b has the identifier a of its initializer in computed_from, and in
\* general every left-hand leaf of an assignment or initialization has every
\* identifier leaf of the right-hand side in computed_from.
C11_ComputedFrom ==
    status = "done" =>
        /\ FirstReadInSecond \in Range(computed_from[DeclaredIdentifier(tree, tree[0].children[2])])
        /\ \A n \in Assigning(tree) :
              \A l \in IdentifierLeaves(tree, Target(tree, n)) :
                  IdentifierLeaves(tree, Assigned(tree, n)) \subseteq Range(computed_from[l])

(***************************************************************************)
(* C12.  The idx of the nodes.                                             *)
(***************************************************************************)
\* The places where an idx given by assign_idx is held: child i of node n.
ChildSlots(t) == UNION {{<<n, i>> : i \in DOMAIN t[n].children} : n \in Nodes(t)}

IdxAt(t, slot) == t[slot[1]].children[slot[2]]

RECURSIVE Descendants(_, _)
Descendants(t, n) ==
    UNION {{t[n].children[i]} \cup Descendants(t, t[n].children[i]) : i \in DOMAIN t[n].children}

RECURSIVE HasErrorProduction(_)
HasErrorProduction(raw) ==
    \/ raw.type = "ERROR"
    \/ \E i \in DOMAIN raw.kids : HasErrorProduction(raw.kids[i])

\* C13: for a source with an error production at any depth the construction
\* of the tree fails, and nothing is ever simulated: no call is made or due
\* and no table exists or changes.
C13_ErrorBeforeSimulation ==
    HasErrorProduction(source) =>
        /\ status = "grammar_error"
        /\ trace = <<>>
        /\ stack = <<>>
        /\ due = NoCall
        /\ tables = <<>>
        /\ \A n \in Nodes(tree) : last_read[n] = {} /\ last_write[n] = {}

\* The error production lies below statements that could have been simulated.
C13_Witness ==
    /\ status = "grammar_error"
    /\ source.type = "translation_unit"
    /\ \E i \in DOMAIN source.kids :
          /\ i > 2
          /\ source.kids[i].type # "ERROR"
          /\ HasErrorProduction(source.kids[i])

(***************************************************************************)
(* C14.  Lookup order.                                                     *)
(***************************************************************************)
\* C14: in every reachable state a lookup of a name on a table that binds
\* it locally yields that local unit, whatever the table's cache or its
\* ancestors hold for the name; a name not bound locally is taken from the
\* cache, and a name in neither from the father (none when there is no
\* father).  A lookup that finds the name in the table changes no table.
C14_Shadowing ==
    \A t \in DOMAIN tables : \A token \in Tokens :
        LET r == find_reference(tables, t, token)
            own == tables[t].local_variables
            cache == tables[t].outer_variables
            f == tables[t].father
        IN  /\ token \in DOMAIN own =>
                  r.found /\ r.tables = tables /\ UnitOf(r.tables, t, token) = own[token]
            /\ token \notin DOMAIN own /\ token \in DOMAIN cache =>
                  r.found /\ r.tables = tables /\ UnitOf(r.tables, t, token) = cache[token]
            /\ token \notin DOMAIN own \cup DOMAIN cache /\ f = None => ~r.found
            /\ token \notin DOMAIN own \cup DOMAIN cache /\ f # None =>
                  LET up == find_reference(tables, f, token)
                  IN  /\ r.found = up.found
                      /\ up.found => UnitOf(r.tables, t, token) = UnitOf(up.tables, f, token)

\* A table binds a name that its cache holds with another unit and that an
\* ancestor binds as well.
C14_Witness ==
    \E t \in DOMAIN tables : \E token \in Tokens :
        /\ token \in DOMAIN tables[t].local_variables
        /\ token \in DOMAIN tables[t].outer_variables
        /\ tables[t].local_variables[token] # tables[t].outer_variables[token]
        /\ tables[t].father # None
        /\ Owner(tables, tables[t].father, token) # None

(***************************************************************************)
(* C15.  The three update modes (VariableTable called directly).           *)
(***************************************************************************)
LastEvent(tr) == tr[Len(tr)]

\* The step is a call that returned, of one of the given kinds, on a token
\* that is not special.
Returned(ops) ==
    /\ status = "api" /\ status' = "api"
    /\ Len(trace') = Len(trace) + 1
    /\ LastEvent(trace').op \in ops
    /\ tree[LastEvent(trace').n].token \notin {"cin", "cout", "endl"}

\* C15: find_and_update on a bound name leaves the unit visible from the
\* table with last_read = {node} and last_write unchanged for mode "ro",
\* last_write = {node} and last_read unchanged for "wo", both = {node} for "rw".
C15_UpdateByMode ==
    [][Returned({"ro", "wo", "rw"}) =>
         LET e == LastEvent(trace')
             before == VisibleUnit(tables, e.t, tree[e.n].token)
             after == VisibleUnit(tables', e.t, tree[e.n].token)
         IN  /\ e.op = "ro" => after = [lr |-> {e.n}, lw |-> before.lw]
             /\ e.op = "wo" => after = [lr |-> before.lr, lw |-> {e.n}]
             /\ e.op = "rw" => after = [lr |-> {e.n}, lw |-> {e.n}]]_vars

\* A read-and-write access of a name inherited from the father, whose unit
\* held other nodes before.
C15_Witness ==
    /\ status = "api"
    /\ trace # <<>>
    /\ LET e == LastEvent(trace)
       IN  /\ e.op = "rw"
           /\ e.o # None /\ e.o # e.t
           /\ e.u.lw # {} /\ e.n \notin e.u.lw
           /\ VisibleUnit(tables, e.t, tree[e.n].token) = [lr |-> {e.n}, lw |-> {e.n}]

(***************************************************************************)
(* C16.  What a node records.                                              *)
(***************************************************************************)
\* The accesses of a node by find_and_update or the update handler.
Visits(n) == {i \in 1..Len(trace) : trace[i].n = n /\ trace[i].op \in {"ro", "wo", "rw"}}

\* C16 as stated: after the simulation every identifier node that was read
\* or written has last_read and last_write equal to the unit's sets as they
\* stood immediately before the node was simulated.
C16_ExactlyPreceding ==
    status = "done" =>
        \A n \in Nodes(tree) :
            Visits(n) # {} =>
                \E i \in Visits(n) :
                    last_read[n] = trace[i].u.lr /\ last_write[n] = trace[i].u.lw

\* C16, amended: after the simulation every identifier node that was read
\* or written has last_read and last_write equal to the union, over the
\* simulations of the node (a node in a loop is simulated twice), of the
\* unit's sets as they stood immediately before each, together with the node
\* itself when it is the operand of an update expression.
C16_UnionOfPreceding ==
    status = "done" =>
        \A n \in Nodes(tree) :
            Visits(n) # {} =>
                LET self == IF \E i \in Visits(n) : trace[i].op = "rw" THEN {n} ELSE {}
                IN  /\ last_read[n] = self \cup UNION {trace[i].u.lr : i \in Visits(n)}
                    /\ last_write[n] = self \cup UNION {trace[i].u.lw : i \in Visits(n)}

\* A node read twice, in a loop, with other writers before the second read
\* than before the first.
C16_Witness ==
    /\ status = "done"
    /\ \E n \in Nodes(tree) : \E i, j \in Visits(n) :
          /\ i < j
          /\ trace[i].op = "ro"
          /\ trace[i].u.lw # trace[j].u.lw
          /\ trace[i].u.lw # {} /\ trace[j].u.lw # {}
          /\ last_write[n] = trace[i].u.lw \cup trace[j].u.lw

(***************************************************************************)
(* C17.  add_reference.                                                    *)
(***************************************************************************)
\* C17: add_reference of a token that is not special leaves the table's own
\* binding of the token equal to [lr = {node}, lw = {node}], whatever it was
\* bound to before, and changes nothing else: not the other bindings of the
\* table, not its cache, not any other table, not any node's last_read or
\* last_write.
C17_AddReferenceFrame ==
    [][Due("add_reference") /\ tree[Current.n].token \notin {"cin", "cout", "endl"} =>
         LET n == Current.n
             t == TableOf(Top, Current.t)
             token == tree[n].token
         IN  /\ DOMAIN tables'[t].local_variables = DOMAIN tables[t].local_variables \cup {token}
             /\ tables'[t].local_variables[token] = [lr |-> {n}, lw |-> {n}]
             /\ \A k \in DOMAIN tables[t].local_variables \ {token} :
                    tables'[t].local_variables[k] = tables[t].local_variables[k]
             /\ tables'[t].outer_variables = tables[t].outer_variables
             /\ tables'[t].father = tables[t].father
             /\ tables'[t].child = tables[t].child
             /\ DOMAIN tables' = DOMAIN tables
             /\ \A a \in DOMAIN tables \ {t} : tables'[a] = tables[a]
             /\ last_read' = last_read
             /\ last_write' = last_write]_vars

\* A name is declared a second time in a table that also has it cached.
C17_Witness ==
    \E i, j \in 1..Len(trace) :
        /\ i < j
        /\ trace[i].op = "add" /\ trace[j].op = "add"
        /\ trace[i].t = trace[j].t
        /\ tree[trace[i].n].token = tree[trace[j].n].token
        /\ tree[trace[j].n].token \in DOMAIN tables[trace[j].t].outer_variables
        /\ tables[trace[j].t].father # None

(***************************************************************************)
(* C18.  Special tokens (VariableTable called directly).                   *)
(***************************************************************************)
\* C18: add_reference and find_and_update on cin, cout or endl return
\* without raising and change nothing: no table, and no last_read or
\* last_write, which stay empty for the node.
C18_SpecialTokensIgnored ==
    [][/\ status = "api"
       /\ Len(trace') = Len(trace) + 1
       /\ LastEvent(trace').op \in {"add", "ro", "wo", "rw"}
       /\ tree[LastEvent(trace').n].token \in {"cin", "cout", "endl"}
       => /\ status' = "api"
          /\ tables' = tables
          /\ last_read' = last_read
          /\ last_write' = last_write
          /\ last_read'[LastEvent(trace').n] = {}
          /\ last_write'[LastEvent(trace').n] = {}
          /\ \A t \in DOMAIN tables' : ~find_reference(tables', t, tree[LastEvent(trace').n].token).found]_vars

\* A special token has been declared and then read, in a child table, and
\* is bound nowhere.
C18_Witness ==
    /\ status = "api"
    /\ \E i, j \in 1..Len(trace) :
          /\ i < j
          /\ trace[i].op = "add" /\ trace[j].op = "ro"
          /\ trace[i].n = trace[j].n
          /\ tree[trace[i].n].token \in {"cin", "cout", "endl"}
          /\ tables[trace[j].t].father # None
          /\ \A t \in DOMAIN tables :
                tree[trace[i].n].token \notin BoundNames(tables, t)

(***************************************************************************)
(* C19.  merge_and_pop_self.                                               *)
(***************************************************************************)
\* C19: merge_and_pop_self leaves, for every name of the child's cache, the
\* father's unit with last_read = its last_read before united with the
\* child's, and last_write likewise; the father's units of all other names,
\* the names it binds, and all other tables are unchanged.
C19_MergeIsUnion ==
    [][Due("merge_and_pop_self") /\ status' # "error" =>
         LET t == TableOf(Top, Current.t)
             f == tables[t].father
             so == tables[t].outer_variables
         IN  /\ \A k \in DOMAIN so :
                   /\ k \in BoundNames(tables, f)
                   /\ UnitOf(tables', f, k).lr = UnitOf(tables, f, k).lr \cup so[k].lr
                   /\ UnitOf(tables', f, k).lw = UnitOf(tables, f, k).lw \cup so[k].lw
             /\ DOMAIN tables'[f].local_variables = DOMAIN tables[f].local_variables
             /\ DOMAIN tables'[f].outer_variables = DOMAIN tables[f].outer_variables
             /\ \A k \in DOMAIN tables[f].local_variables \ DOMAIN so :
                    tables'[f].local_variables[k] = tables[f].local_variables[k]
             /\ \A k \in DOMAIN tables[f].outer_variables \ DOMAIN so :
                    tables'[f].outer_variables[k] = tables[f].outer_variables[k]
             /\ DOMAIN tables' = DOMAIN tables
             /\ \A a \in DOMAIN tables \ {f} : tables'[a] = tables[a]]_vars

\* A merge has just left the father with the child's writers and others.
C19_Witness ==
    /\ status = "running"
    /\ trace # <<>>
    /\ LastEvent(trace).op = "merge_and_pop_self"
    /\ LET t == LastEvent(trace).t
           f == LastEvent(trace).c
       IN  \E k \in DOMAIN tables[t].outer_variables :
               /\ tables[t].outer_variables[k].lw # {}
               /\ tables[t].outer_variables[k].lw \subseteq UnitOf(tables, f, k).lw
               /\ tables[t].outer_variables[k].lw # UnitOf(tables, f, k).lw
               /\ tables[t].outer_variables[k].lr # UnitOf(tables, f, k).lr

(***************************************************************************)
(* C20.  The branches of an if statement.                                  *)
(***************************************************************************)
InLoop(t, n) == \E a \in Nodes(t) : t[a].class \in LoopClasses /\ IsWithin(t, n, a)

\* The if statements with both branches that are in no loop.
TwoWayIfs(t) ==
    {f \in Nodes(t) : t[f].class = "IfStatement" /\ Len(IfBranches(t, f)) = 2 /\ ~InLoop(t, f)}

\* C20: the branches of an if statement are simulated each in a table of
\* its own, both created under the table the condition was simulated in; and
\* for an if statement in no loop no node of the alternative has a node of
\* the consequence in its last_read or last_write.
C20_BranchIndependence ==
    \A f \in TwoWayIfs(tree) :
        LET consequence == IfBranches(tree, f)[1]
            alternative == IfBranches(tree, f)[2]
        IN  /\ \A n \in Nodes(tree) :
                  IsWithin(tree, n, alternative) =>
                      \A m \in last_read[n] \cup last_write[n] : ~IsWithin(tree, m, consequence)
            /\ \A i, j, k \in 1..Len(trace) :
                  /\ trace[i].op = "sim" /\ trace[i].n = consequence
                  /\ trace[j].op = "sim" /\ trace[j].n = alternative
                  /\ trace[k].op = "sim" /\ trace[k].n = IfConditionClause(tree, f)
                  => /\ trace[i].t # trace[j].t
                     /\ tables[trace[i].t].father = trace[k].t
                     /\ tables[trace[j].t].father = trace[k].t
                     /\ trace[i].t # trace[k].t /\ trace[j].t # trace[k].t

\* The consequence wrote a variable that the alternative accessed.
C20_Witness ==
    /\ status = "done"
    /\ \E f \in TwoWayIfs(tree) : \E i, j \in 1..Len(trace) :
          /\ i < j
          /\ trace[i].op \in {"wo", "rw"}
          /\ IsWithin(tree, trace[i].n, IfBranches(tree, f)[1])
          /\ trace[j].op \in {"ro", "rw"}
          /\ IsWithin(tree, trace[j].n, IfBranches(tree, f)[2])
          /\ tree[trace[i].n].token = tree[trace[j].n].token
          /\ trace[i].o = trace[j].o
          /\ last_write[trace[j].n] # {}

(***************************************************************************)
(* C21.  The conditional expression a ? b : c.                             *)
(***************************************************************************)
ConditionalAlternative(t, n) == t[n].children[5]

\* The read events from a to k of identifiers below node b whose token no
\* node outside b touches from a to k.
ReadsOnlyIn(b, a, k) ==
    {j \in a..k :
        /\ trace[j].op = "ro"
        /\ IsWithin(tree, trace[j].n, b)
        /\ \A i \in a..k :
              IsAccess(i) /\ TokenOf(i) = TokenOf(j) => IsWithin(tree, trace[i].n, b)}

\* C21: the effects of the alternative of a conditional expression are
\* merged into the enclosing scope: for a variable read only in the
\* alternative, the next access to that variable after the conditional
\* expression has that read node in its last_read.
C21_AlternativeMerged ==
    \A a \in 1..Len(trace) :
        trace[a].op = "add_variable_table"
        /\ tree[trace[a].n].type = "conditional_expression" =>
            \A k \in (a + 1)..Len(trace) :
                Closes(a, k) =>
                    \A j \in ReadsOnlyIn(ConditionalAlternative(tree, trace[a].n), a, k) :
                        LET r == FirstAccessAfter(k, TokenOf(j), trace[j].o)
                        IN  r # 0 => trace[j].n \in last_read[trace[r].n]

(***************************************************************************)
(* C22.  find_and_update of a name bound nowhere.                          *)
(***************************************************************************)
\* The step is a call table.find_and_update(node.token, node, mode) from a
\* table on whose chain no scope binds the token.
UpdatesUnbound ==
    /\ Len(trace') = Len(trace) + 1
    /\ LastEvent(trace').op \in UPDATE_MODE
    /\ Owner(tables, LastEvent(trace').t, tree[LastEvent(trace').n].token) = None

\* The call raised and changed neither a node's annotations nor a table.
RaisedWithoutEffect ==
    /\ status' = "error"
    /\ last_read' = last_read
    /\ last_write' = last_write
    /\ tables' = tables

\* C22 as claimed: find_and_update of an identifier whose name is bound in no
\* scope of the chain raises, and the failing call leaves the node's
\* last_read/last_write and every scope table unchanged (no cache entry for
\* the missing name).
C22_UnboundRaises == [][UpdatesUnbound => RaisedWithoutEffect]_vars

\* C22 amended: the same for an identifier whose name is not one of the
\* special tokens (for cin, cout and endl the call returns without raising).
C22_UnboundOrdinaryRaises ==
    [][UpdatesUnbound /\ tree[LastEvent(trace').n].token \notin {"cin", "cout", "endl"}
           => RaisedWithoutEffect]_vars

\* A lookup of x from a scope with a father has raised while another scope,
\* not on the chain, binds x.
C22_Witness ==
    /\ status = "error"
    /\ trace # <<>>
    /\ LastEvent(trace).op \in UPDATE_MODE
    /\ tree[LastEvent(trace).n].token = "x"
    /\ tables[LastEvent(trace).t].father # None
    /\ \E u \in DOMAIN tables : "x" \in DOMAIN tables[u].local_variables
    /\ \A u \in DOMAIN tables : "x" \notin DOMAIN tables[u].outer_variables

(***************************************************************************)
(* C23.  Abort on failure.                                                 *)
(***************************************************************************)
\* The call due raises: an explicit raise of a handler, an access to a name
\* bound nowhere, or the closing of a table that cannot be closed.
Raises ==
    /\ status = "running"
    /\ LET table == TableOf(Top, Current.t)
       IN  \/ Current.op = "raise"
           \/ /\ Current.op = "find_and_update"
              /\ find_and_update(tables, last_read, last_write, table,
                                 tree[Current.n].token, Current.n, Current.m).raised
           \/ /\ Current.op = "update_expression"
              /\ update_expression(tables, last_read, last_write, table,
                                   tree[Current.n].token, Current.n).raised
           \/ /\ Current.op \in {"pop_self", "merge_and_pop_self"}
              /\ tables[table].father = None
           \/ /\ Current.op = "merge_and_pop_self"
              /\ tables[table].father # None
              /\ merge_raises(tables, table)

OpenChildren(s) == {t \in DOMAIN tables : tables[t].father = s /\ IsOpen(t)}

\* The table was created by father.add_variable_table().
MadeByAdd(t) ==
    \E a \in 1..Len(trace) : trace[a].op = "add_variable_table" /\ trace[a].c = t

\* C24 as claimed: at every point of a simulation every scope has at most
\* one open child scope, and its child slot refers to that open child; two
\* scopes with the same father are never open at the same time.
C24_SingleOpenChild ==
    \A s \in DOMAIN tables :
        /\ Cardinality(OpenChildren(s)) <= 1
        /\ \A t \in OpenChildren(s) : tables[s].child = t

\* C24 amended: at every point of a simulation every scope has at most one
\* open child scope that was created with add_variable_table, and its child
\* slot refers to that open child; two scopes created with
\* add_variable_table on the same father are never open at the same time.
C24_SingleOpenAddedChild ==
    \A s \in DOMAIN tables :
        LET added == {t \in OpenChildren(s) : MadeByAdd(t)}
        IN  /\ Cardinality(added) <= 1
            /\ \A t \in added : tables[s].child = t

\* An if-scope made with add_variable_table is open, its father's child slot
\* refers to it, and two branch scopes under it are open side by side.
C24_Witness ==
    \E t \in DOMAIN tables :
        /\ IsOpen(t)
        /\ MadeByAdd(t)
        /\ tables[tables[t].father].child = t
        /\ \E u, v \in OpenChildren(t) : u # v /\ ~MadeByAdd(u) /\ ~MadeByAdd(v)

(***************************************************************************)
(* C25.  Two simulations interleaved.                                      *)
(***************************************************************************)
\* What a simulation leaves behind: how it ended, the annotations of its
\* tree and the content of its root table.
Outcome(st, lrd, lwr, root) ==
    [status |-> st, last_read |-> lrd, last_write |-> lwr,
     local_variables |-> root.local_variables, outer_variables |-> root.outer_variables]

OutcomeAlone(src) ==
    LET s == Alone(src)
    IN  Outcome(s.status, s.last_read, s.last_write, s.tables[1])

SameFile(t, u) == Ancestry(tables, t) \cap Ancestry(tables, u) # {}

AssignmentExpressions(t) == {n \in Nodes(t) : t[n].type = "assignment_expression"}

\* Event k is a call the handler of the assignment node n makes on a node
\* of its left side.
CallsLeftSide(n, k) ==
    /\ trace[k].op = "sim"
    /\ trace[k].c = n
    /\ trace[k].n # Assigned(tree, n)

\* Event j is the call the handler of n makes on its right side.
CallsRightSide(n, j) ==
    /\ trace[j].op = "sim"
    /\ trace[j].c = n
    /\ trace[j].n = Assigned(tree, n)

\* C26: in an assignment expression the right-hand side is simulated in
\* Read mode before the left-hand side is simulated (the call on the left
\* side follows a call on the right side made in mode "r" by the same run
\* of the handler); for an assignment x = ..x.. simulated once, the left x
\* node has the right-hand x read in its last_read, and the right-hand x
\* read does not have the left x node in its last_write.
C26_RightThenLeft ==
    \A n \in AssignmentExpressions(tree) :
        /\ \A k \in 1..Len(trace) :
              /\ CallsRightSide(n, k) => trace[k].m = "r"
              /\ CallsLeftSide(n, k) =>
                    \E j \in 1..(k - 1) :
                        /\ CallsRightSide(n, j)
                        /\ \A i \in (j + 1)..(k - 1) : ~CallsLeftSide(n, i)
        /\ ~InLoop(tree, n) /\ tree[Target(tree, n)].type = "identifier"
           /\ Accessed(Target(tree, n)) =>
              \A r \in IdentifierLeaves(tree, Assigned(tree, n)) :
                  tree[r].token = tree[Target(tree, n)].token /\ Accessed(r) =>
                      /\ r \in last_read[Target(tree, n)]
                      /\ Target(tree, n) \notin last_write[r]

\* x = x + 1 outside of every loop has been simulated.
C26_Witness ==
    \E n \in AssignmentExpressions(tree) :
        /\ ~InLoop(tree, n)
        /\ tree[Target(tree, n)].type = "identifier"
        /\ tree[Assigned(tree, n)].type = "binary_expression"
        /\ Accessed(Target(tree, n))
        /\ \E r \in IdentifierLeaves(tree, Assigned(tree, n)) :
              /\ tree[r].token = tree[Target(tree, n)].token
              /\ r \in last_read[Target(tree, n)]
              /\ last_write[r] # {}

(***************************************************************************)
(* C27.  The left side of an assignment.                                   *)
(***************************************************************************)
\* The handler of node n has been entered.
Simulated(n) == \E i \in 1..Len(trace) : trace[i].op = "sim" /\ trace[i].n = n

\* The simulation failed by a raise of the handler of node n itself.
RaisedBy(n) ==
    /\ status = "error"
    /\ LastEvent(trace).op = "raise"
    /\ LastEvent(trace).n = n

\* The handler of the assignment n has called simulate_data_flow on v with
\* one of the modes.
LeftSimulated(n, v, modes) ==
    \E k \in 1..Len(trace) : CallsLeftSide(n, k) /\ trace[k].n = v /\ trace[k].m \in modes

\* C27: an assignment whose left side is an identifier, subscript, field or
\* pointer-dereference expression is accepted (its handler does not raise,
\* and has simulated the left side as written or declared when the file is
\* done); a parenthesized left side is unwrapped one level and its inner
\* expression written (the parenthesized node itself is not simulated); an
\* assignment whose left side is of any other kind raises a simulation error
\* (its left side is never simulated and the file is never done).
C27_LeftSideKinds ==
    \A n \in AssignmentExpressions(tree) :
        LET variable == Target(tree, n)
        IN  IF tree[variable].type \in {"identifier", "subscript_expression",
                                        "field_expression", "pointer_expression"}
            THEN /\ ~RaisedBy(n)
                 /\ status = "done" /\ Simulated(n) => LeftSimulated(n, variable, {"w", "d"})
            ELSE IF tree[variable].type = "parenthesized_expression"
            THEN /\ ~RaisedBy(n)
                 /\ ~Simulated(variable)
                 /\ status = "done" /\ Simulated(n) =>
                        LeftSimulated(n, tree[variable].children[2], {"w"})
            ELSE /\ \A k \in 1..Len(trace) : ~CallsLeftSide(n, k)
                 /\ Simulated(n) => status # "done"
                 /\ Simulated(n) /\ status = "error" => RaisedBy(n)

\* An assignment to a call expression has raised after its right side was
\* simulated.
C27_Witness ==
    \E n \in AssignmentExpressions(tree) :
        /\ tree[Target(tree, n)].type = "call_expression"
        /\ RaisedBy(n)
        /\ \E j \in 1..Len(trace) : CallsRightSide(n, j)
        /\ Accessed(Assigned(tree, n))

(***************************************************************************)
(* C28.  The subscript expression base[index].                             *)
(***************************************************************************)
\* Event k is a call that the handler of a subscript expression makes.
InSubscript(k) ==
    /\ trace[k].op = "sim"
    /\ trace[k].c # None
    /\ tree[trace[k].c].type = "subscript_expression"

\* The mode with which the caller of event k was itself called.
CallerMode(k) ==
    trace[Latest({i \in 1..(k - 1) : trace[i].op = "sim" /\ trace[i].n = trace[k].c})].m

SubscriptBase(n) == named_children(tree, n)[1]

SubscriptIndex(n) == named_children(tree, n)[2]

\* C28 as claimed: the index of a subscript expression is always simulated
\* in Read mode, and the base in Read mode when the subscript's own mode is
\* Read, in Write mode when it is Write, and in Declare mode for every other
\* mode (Declare and StatementDefault).
C28_BaseDeclaredByDefault ==
    \A k \in 1..Len(trace) :
        InSubscript(k) =>
            /\ trace[k].n = SubscriptIndex(trace[k].c) => trace[k].m = "r"
            /\ trace[k].n = SubscriptBase(trace[k].c) =>
                  trace[k].m = IF CallerMode(k) = "r" THEN "r"
                               ELSE IF CallerMode(k) = "w" THEN "w"
                               ELSE "d"

\* C28 amended: the index is always simulated in Read mode, and the base in
\* Read mode when the subscript's own mode is Read or StatementDefault, in
\* Write mode when it is Write, and in Declare mode when it is Declare
\* (always simulated: once the file is done, every subscript expression
\* that was simulated has had its index and its base simulated).
C28_BaseReadByDefault ==
    /\ \A k \in 1..Len(trace) :
          InSubscript(k) =>
              /\ trace[k].n = SubscriptIndex(trace[k].c) => trace[k].m = "r"
              /\ trace[k].n = SubscriptBase(trace[k].c) =>
                    trace[k].m = IF CallerMode(k) \in {"r", "o"} THEN "r"
                                 ELSE IF CallerMode(k) = "w" THEN "w"
                                 ELSE "d"
    /\ status = "done" =>
          \A n \in Nodes(tree) :
              tree[n].type = "subscript_expression" /\ Simulated(n) =>
                  /\ \E k \in 1..Len(trace) :
                        InSubscript(k) /\ trace[k].c = n /\ trace[k].n = SubscriptIndex(n)
                  /\ \E k \in 1..Len(trace) :
                        InSubscript(k) /\ trace[k].c = n /\ trace[k].n = SubscriptBase(n)

\* A subscript expression simulated with StatementDefault (the initializer
\* of a for statement) has had its base read.
C28_Witness ==
    \E k \in 1..Len(trace) :
        /\ InSubscript(k)
        /\ trace[k].n = SubscriptBase(trace[k].c)
        /\ CallerMode(k) = "o"
        /\ trace[k].m = "r"
        /\ \E j \in (k + 1)..Len(trace) : trace[j].op = "ro" /\ trace[j].n = trace[k].n

(***************************************************************************)
(* C29.  The call expression f(args).                                      *)
(***************************************************************************)
ArgumentList(n) == tree[n].children[2]

\* The identifiers among the arguments of the call expression n.
ArgumentIdentifiers(n) == IdentifierLeaves(tree, ArgumentList(n))

\* C29: whatever mode a call expression is simulated with, its argument
\* list is simulated in Read mode; simulating a call never creates a binding
\* for an argument identifier ("add") and never changes an argument
\* variable's last_write ("wo", "rw"): an argument identifier is only read.
C29_ArgumentsRead ==
    \A k \in 1..Len(trace) :
        /\ trace[k].op = "sim" /\ trace[k].c # None
           /\ tree[trace[k].c].type = "call_expression" => trace[k].m = "r"
        /\ IsAccess(k) =>
              \A n \in Nodes(tree) :
                  tree[n].type = "call_expression" /\ trace[k].n \in ArgumentIdentifiers(n) =>
                      trace[k].op = "ro"

(***************************************************************************)
(* C30.  The expression statement in mode StatementDefault.                *)
(***************************************************************************)
\* Event k is a call that the handler of an expression statement simulated
\* with StatementDefault makes on one of its children.
InStatement(k) ==
    /\ trace[k].op = "sim"
    /\ trace[k].c # None
    /\ tree[trace[k].c].type = "expression_statement"
    /\ CallerMode(k) = "o"

\* Event k declares the identifier that is the whole of an expression
\* statement, and no call on a table has been made since.
BareIdentifierDeclared(k) ==
    /\ trace[k].op = "add"
    /\ tree[tree[trace[k].n].father].type = "expression_statement"
    /\ \A j \in (k + 1)..Len(trace) : IsCall(j)

\* C30: an expression statement in StatementDefault mode simulates a child
\* that is a plain identifier, subscript or pointer-dereference as Declare,
\* comma and assignment children with StatementDefault, and every other
\* child as Read; a bare identifier statement creates a new local binding
\* seeded with that node (the node is its only reader and writer), replacing
\* the variable's earlier local state.
C30_StatementChildren ==
    \A k \in 1..Len(trace) :
        /\ InStatement(k) =>
              trace[k].m =
                  IF tree[trace[k].n].type \in {"identifier", "subscript_expression",
                                                "pointer_expression"} THEN "d"
                  ELSE IF tree[trace[k].n].type \in {"comma_expression", "assignment_expression"}
                  THEN "o"
                  ELSE "r"
        /\ BareIdentifierDeclared(k) =>
              /\ TokenOf(k) \in DOMAIN tables[trace[k].t].local_variables
              /\ tables[trace[k].t].local_variables[TokenOf(k)]
                     = [lr |-> {trace[k].n}, lw |-> {trace[k].n}]
        /\ status = "done" /\ trace[k].op = "sim"
           /\ tree[trace[k].n].type = "expression_statement" /\ trace[k].m = "o" =>
              \A e \in Range(named_children(tree, trace[k].n)) :
                  \E j \in (k + 1)..Len(trace) : InStatement(j) /\ trace[j].n = e

\* The statement x; has been simulated where x was bound and had been read
\* before: the binding of x now holds the x of the statement alone.
C30_Witness ==
    \E k \in 1..Len(trace) :
        /\ BareIdentifierDeclared(k)
        /\ InStatement(k - 1)
        /\ trace[k - 1].n = trace[k].n
        /\ BoundBefore(k, TokenOf(k))
        /\ \E j \in 1..(k - 1) : trace[j].op = "ro" /\ TokenOf(j) = TokenOf(k)
        /\ tables[trace[k].t].local_variables[TokenOf(k)]
               = [lr |-> {trace[k].n}, lw |-> {trace[k].n}]

(***************************************************************************)
(* C31.  Modes a handler does not support.                                 *)
(***************************************************************************)
\* A node of the type is simulated in a mode its handler rejects.
ModeMisuse(type, mode) ==
    \/ type = "identifier" /\ mode = "o"
    \/ type = "field_expression" /\ mode = "d"
    \/ type \in {"expression_statement", "comma_expression"} /\ mode \in {"w", "d"}

\* The call that is running is such a call.
Misused == status = "running" /\ ModeMisuse(tree[Top.n].type, Top.m)

\* Event k is the call of a field expression in a mode other than Declare.
FieldCall(tr, k) ==
    /\ tr[k].op = "sim"
    /\ tree[tr[k].n].type = "field_expression"
    /\ tr[k].m # "d"

\* C31: an identifier simulated in mode "o", a field expression simulated in
\* mode "d", and an expression statement or comma expression simulated in
\* mode "w" or "d" each raise (the simulation fails with the raise of that
\* node as its last event) without changing any scope table or annotation;
\* a field expression in any other mode simulates its base object, its first
\* child, with that same mode in the same table, as the next call made.
C31_ModeMisuse ==
    [][/\ Misused =>
              /\ status' = "error"
              /\ LastEvent(trace') = Event("raise", Top.n, Top.m, Top.vt, None, None)
              /\ Len(trace') = Len(trace) + 1
              /\ tables' = tables
              /\ last_read' = last_read
              /\ last_write' = last_write
       /\ \A k \in 1..Len(trace') :
              FieldCall(trace', k) =>
                  /\ k < Len(trace')
                  /\ trace'[k + 1] = Event("sim", tree[trace'[k].n].children[1], trace'[k].m,
                                           trace'[k].t, trace'[k].n, None)]_vars

\* Inside a loop scope that holds inherited names a field expression was
\* simulated in mode "r", its base was read, and then a field expression
\* simulated in mode "d" raised.
C31_Witness ==
    /\ status = "error"
    /\ LastEvent(trace).op = "raise"
    /\ tree[LastEvent(trace).n].type = "field_expression"
    /\ LastEvent(trace).m = "d"
    /\ tables[LastEvent(trace).t].father # None
    /\ DOMAIN tables[LastEvent(trace).t].outer_variables # {}
    /\ \E k \in 1..Len(trace) :
           /\ FieldCall(trace, k)
           /\ trace[k].m = "r"
           /\ \E j \in (k + 1)..Len(trace) :
                  trace[j].op = "ro" /\ trace[j].n = tree[trace[k].n].children[1]

(***************************************************************************)
(* C32.  Scopes opened and closed by a call.                               *)
(***************************************************************************)
\* Event a creates a table, and the handler that does so runs inside the
\* call of event i.
CreatedDuring(i, a) ==
    /\ a > i
    /\ trace[a].op \in {"add_variable_table", "VariableTable"}
    /\ IsWithin(tree, trace[a].n, trace[i].n)

\* The tables that existed when the call of event i was made.
ExistingAt(i) ==
    {1} \cup {trace[a].c : a \in {b \in 1..(i - 1) :
                                   trace[b].op \in {"add_variable_table", "VariableTable"}}}

\* C32: whenever simulate_data_flow on a node returns without error, every
\* scope created during that call has been closed by pop_self or
\* merge_and_pop_self, and the scope table that was passed in has the father
\* it had and no child left from the call (its child slot is None, or holds
\* a scope that was open already when the call was made).
C32_BalancedScopes ==
    \A i \in 1..Len(trace) :
        JustReturned(i) /\ status # "error" =>
            /\ \A a \in 1..Len(trace) : CreatedDuring(i, a) => ~IsOpen(trace[a].c)
            /\ tables[trace[i].t].child \in {None} \cup ExistingAt(i)
            /\ trace[i].t # 1 => tables[trace[i].t].father \in ExistingAt(i)

(***************************************************************************)
(* C33.  What a scope caches, its father binds.                            *)
(***************************************************************************)
\* Every name in the cache of a table is bound or cached by its father.
CacheContained(tbls) ==
    \A c \in DOMAIN tbls :
        tbls[c].father # None =>
            DOMAIN tbls[c].outer_variables \subseteq BoundNames(tbls, tbls[c].father)

\* C33: in every reachable state, for every scope C with father P, each name
\* in C.outer_variables is a key of P.local_variables or of
\* P.outer_variables; so a merge_and_pop_self that is due in a simulation
\* does not raise its 'Outer variable ... is not found in outer tables'
\* error, and a pop_self that is due adds no name to the father.
C33_CacheContainment ==
    /\ tables # <<>> => CacheContained(tables)
    /\ Due("merge_and_pop_self") => ~merge_raises(tables, TableOf(Top, Current.t))
    /\ Due("pop_self") =>
           LET t == TableOf(Top, Current.t)
               f == tables[t].father
           IN  /\ BoundNames(pop_self(tables, t), f) = BoundNames(tables, f)
               /\ CacheContained(pop_self(tables, t))
    /\ ~(status = "error" /\ LastEvent(trace).op = "merge_and_pop_self")

\* A branch scope that cached a name through an if-scope, which cached it
\* from an enclosing scope other than the root, has been merged, and the
\* if-scope has been popped into that enclosing scope.
C33_Witness ==
    \E c \in DOMAIN tables :
        /\ tables[c].father # None
        /\ LET p == tables[c].father
           IN  /\ tables[p].father # None
               /\ tables[tables[p].father].father # None
               /\ \E k \in DOMAIN tables[c].outer_variables :
                      /\ k \in DOMAIN tables[p].outer_variables
                      /\ k \in DOMAIN tables[tables[p].father].outer_variables
               /\ \E i, j \in 1..Len(trace) :
                      /\ i < j
                      /\ trace[i].op = "merge_and_pop_self" /\ trace[i].t = c
                      /\ trace[j].op = "pop_self" /\ trace[j].t = p

(***************************************************************************)
(* C34.  What an if statement leaves of the state before its branches.     *)
(***************************************************************************)
\* The table is the if-scope of an if statement, its condition has been
\* simulated (a branch scope has been created under it) and it is open.
IfScopeAfterCondition(t) ==
    /\ \E a \in 1..Len(trace) :
           /\ trace[a].op = "add_variable_table"
           /\ trace[a].c = t
           /\ tree[trace[a].n].class = "IfStatement"
    /\ \E b \in 1..Len(trace) : trace[b].op = "VariableTable" /\ trace[b].t = t
    /\ IsOpen(t)

\* The second unit holds every reader and writer of the first.
Includes(unit, other) == other.lr \subseteq unit.lr /\ other.lw \subseteq unit.lw

\* The event at which the first branch scope of the if-scope made by event a
\* is created.
FirstBranchCreated(a) ==
    Earliest({b \in (a + 1)..Len(trace) :
                 trace[b].op = "VariableTable" /\ trace[b].t = trace[a].c})

\* C34: an if statement never kills a reaching definition.  From the end of
\* the condition on, no step takes a reader or writer out of a unit the
\* if-scope holds for an inherited variable, and when the if-scope is popped
\* the enclosing scope's unit of each such variable holds every reader and
\* writer the if-scope's unit holds: after the if statement the enclosing
\* scope's last_write and last_read are supersets of what the if-scope held
\* after the condition.  So when both the consequence and the alternative
\* assign x, the next read of x after the if (the next event on x, in a
\* scope on the chain of the scope of the if) has the writers x had before
\* the branches (those the first access to x in a branch found) in its
\* last_write.
C34_NoKill ==
    /\ [][\A t \in 1..Len(tables) :
              IfScopeAfterCondition(t) =>
                  /\ \A k \in DOMAIN tables[t].outer_variables :
                         /\ k \in DOMAIN tables'[t].outer_variables
                         /\ Includes(tables'[t].outer_variables[k], tables[t].outer_variables[k])
                  /\ Closing(t) =>
                         \A k \in DOMAIN tables[t].outer_variables :
                             /\ k \in BoundNames(tables', tables[t].father)
                             /\ Includes(UnitOf(tables', tables[t].father, k),
                                         tables[t].outer_variables[k])]_vars
    /\ [](\A a \in 1..Len(trace) :
            trace[a].op = "add_variable_table" /\ tree[trace[a].n].class = "IfStatement" =>
                \A k \in (a + 1)..Len(trace) :
                    Closes(a, k) /\ Len(IfBranches(tree, trace[a].n)) = 2 =>
                        \A token \in Tokens, d \in Ancestry(tables, trace[a].t) :
                            LET branches == IfBranches(tree, trace[a].n)
                                w1 == Latest(WritesIn(branches[1], a, k, token, d))
                                w2 == Latest(WritesIn(branches[2], a, k, token, d))
                                first == FirstAccessAfter(FirstBranchCreated(a), token, d)
                                r == FirstAccessAfter(k, token, d)
                            IN  /\ w1 # 0
                                /\ w2 # 0
                                /\ r # 0
                                /\ trace[r].op = "ro"
                                /\ OnOneChain(trace[r].t, trace[a].t)
                                => trace[first].u.lw \subseteq last_write[trace[r].n])

\* An if statement whose condition does not mention x and whose two branches
\* both write x has been simulated, and the next read of x has the
\* declaration of x, the writer before the if, in its last_write next to the
\* two writers of the branches.
C34_Witness ==
    \E a, k \in 1..Len(trace) :
        /\ trace[a].op = "add_variable_table"
        /\ tree[trace[a].n].class = "IfStatement"
        /\ Closes(a, k)
        /\ Len(IfBranches(tree, trace[a].n)) = 2
        /\ \A j \in a..FirstBranchCreated(a) : IsAccess(j) => TokenOf(j) # "x"
        /\ LET branches == IfBranches(tree, trace[a].n)
               w1 == Latest(WritesIn(branches[1], a, k, "x", 1))
               w2 == Latest(WritesIn(branches[2], a, k, "x", 1))
               first == FirstAccessAfter(FirstBranchCreated(a), "x", 1)
               r == FirstAccessAfter(k, "x", 1)
           IN  /\ w1 # 0
               /\ w2 # 0
               /\ r # 0
               /\ trace[r].op = "ro"
               /\ trace[first].u.lw = {FirstDeclared}
               /\ tree[FirstDeclared].token = "x"
               /\ last_write[trace[r].n] = {FirstDeclared, trace[w1].n, trace[w2].n}
               /\ Cardinality(last_write[trace[r].n]) = 3

(***************************************************************************)
(* C35.  What a loop leaves of the writers before it.                      *)
(***************************************************************************)
\* The body of a for, while or do statement.
LoopBodyOf(t, n) ==
    CASE t[n].class = "ForStatement" -> ForLoopBody(t, n)
      [] t[n].class = "WhileStatement" -> t[n].children[3]
      [] t[n].class = "DoStatement" -> t[n].children[2]

\* The table is the scope of a loop.
LoopScope(t) ==
    \E e \in 1..Len(trace) :
        /\ trace[e].op = "add_variable_table"
        /\ trace[e].c = t
        /\ tree[trace[e].n].class \in LoopClasses

\* The write of event w is made on every pass of the loop whose scope event
\* a created: no scope of a branch, a conditional expression or a function
\* lies between the scope it is made in and the scope of the loop statement.
Unconditional(a, w) == \A u \in Below(tables, trace[w].t, trace[a].t) : LoopScope(u)

\* The binding of the token defined by d was written before event a.
WrittenBefore(a, token, d) ==
    \E j \in 1..(a - 1) :
        trace[j].op \in {"add", "wo", "rw"} /\ TokenOf(j) = token /\ trace[j].o = d

ReturnStatements == {n \in Nodes(tree) : tree[n].type = "return_statement"}

\* The node whose handler made event k: the caller of a call, and for a
\* call on a table the node it is made for.
MadeBy(k) == IF IsCall(k) THEN trace[k].c ELSE trace[k].n

\* The node is in a last_read or last_write set of a unit of some table.
HeldInUnit(n) ==
    \E t \in DOMAIN tables :
        \/ \E k \in DOMAIN tables[t].local_variables :
               n \in tables[t].local_variables[k].lr \cup tables[t].local_variables[k].lw
        \/ \E k \in DOMAIN tables[t].outer_variables :
               n \in tables[t].outer_variables[k].lr \cup tables[t].outer_variables[k].lw

\* C36: a return statement is a no-op for data flow.  The handler of a
\* return statement, in whatever mode it is called, calls nothing: no
\* event is made by a return statement or a node below it, so it changes no
\* scope table and annotates no node; an identifier in a return expression
\* has empty last_read and last_write and is in no unit (it never becomes
\* the last reader of its variable).
C36_ReturnIsNoOp ==
    \A n \in ReturnStatements :
        /\ \A k \in 1..Len(trace) :
               MadeBy(k) # None => ~IsWithin(tree, MadeBy(k), n)
        /\ \A m \in Nodes(tree) :
               IsWithin(tree, m, n) =>
                   /\ last_read[m] = {}
                   /\ last_write[m] = {}
                   /\ ~HeldInUnit(m)

\* return x; has been simulated, x bound and read before, and x has been
\* read after it: the reader before the return statement is the last reader
\* that read finds.
C36_Witness ==
    \E i \in 1..Len(trace) :
        /\ IsCall(i)
        /\ trace[i].n \in ReturnStatements
        /\ \E m \in Identifiers(tree) :
               /\ IsWithin(tree, m, trace[i].n)
               /\ \E h \in 1..(i - 1), j \in (i + 1)..Len(trace) :
                      /\ trace[h].op = "ro"
                      /\ trace[j].op = "ro"
                      /\ tree[trace[h].n].token = tree[m].token
                      /\ tree[trace[j].n].token = tree[m].token
                      /\ trace[j].u.lr = {trace[h].n}
        /\ status = "done"

(***************************************************************************)
(* C37.  The scope of a function definition.                               *)
(***************************************************************************)
\* The identifier that names the function of a function_definition node.
FunctionName(t, n) ==
    child_by_field_name(t, child_by_field_name(t, n, "declarator"), "declarator")

\* The names declared in table e before event a.
DeclaredBefore(a, e) ==
    {TokenOf(j) : j \in {i \in 1..(a - 1) : trace[i].op = "add" /\ trace[i].t = e}}

\* The node is a reader or writer in a unit the table holds.
HeldBy(e, n) ==
    \/ \E k \in DOMAIN tables[e].local_variables :
           n \in tables[e].local_variables[k].lr \cup tables[e].local_variables[k].lw
    \/ \E k \in DOMAIN tables[e].outer_variables :
           n \in tables[e].outer_variables[k].lr \cup tables[e].outer_variables[k].lw

\* C37: when a function definition has been simulated (its scope has just
\* been popped), the function's name is bound in the enclosing scope, by
\* its declarator node; the parameter names and the variables declared in
\* the body are not bound in the enclosing scope through the definition
\* (the enclosing scope binds the names it bound before and the function's
\* name, and holds none of the nodes declared inside the function); and for
\* every variable the function's scope inherited, the enclosing scope holds
\* the unit the function's scope had for it (the changes of the body are
\* written back).
C37_FunctionScoping ==
    \A a, p \in 1..Len(trace) :
        /\ trace[a].op = "add_variable_table"
        /\ tree[trace[a].n].class = "FuncDefinition"
        /\ Closes(a, p)
        /\ \A j \in (p + 1)..Len(trace) : IsCall(j)
        => LET e == trace[a].t
               t == trace[a].c
               name == FunctionName(tree, trace[a].n)
           IN  /\ tree[name].token \in DOMAIN tables[e].local_variables
               /\ name \in tables[e].local_variables[tree[name].token].lw
               /\ DOMAIN tables[e].local_variables
                      = DeclaredBefore(a, e) \cup {tree[name].token}
               /\ \A j \in (a + 1)..(p - 1) :
                      trace[j].op = "add" /\ trace[j].t # e => ~HeldBy(e, trace[j].n)
               /\ \A k \in DOMAIN tables[t].outer_variables :
                      /\ k \in BoundNames(tables, e)
                      /\ UnitOf(tables, e, k) = tables[t].outer_variables[k]

\* int f(int p) { int z = p; x = z; } has just been simulated at file
\* level: f is bound there, p and z are not, and the last writer of x is the
\* assignment of the body.
C37_Witness ==
    \E a, p \in 1..Len(trace) :
        /\ trace[a].op = "add_variable_table"
        /\ tree[trace[a].n].class = "FuncDefinition"
        /\ Closes(a, p)
        /\ \A j \in (p + 1)..Len(trace) : IsCall(j)
        /\ trace[a].t = 1
        /\ DOMAIN tables[1].local_variables = {"x", "y", "f"}
        /\ DOMAIN tables[trace[a].c].local_variables = {"p", "z"}
        /\ \E w \in (a + 1)..(p - 1) :
               /\ trace[w].op = "wo"
               /\ TokenOf(w) = "x"
               /\ tables[1].local_variables["x"].lw = {trace[w].n}

(***************************************************************************)
(* C38.  Edges join occurrences of one name.                               *)
(***************************************************************************)
\* Every node of the set is an occurrence of the token.
AllNamed(S, token) == \A n \in S : tree[n].token = token

\* C38: in every reachable state, every node held in the last_read or
\* last_write set of a unit stored under name t has token t, and every node
\* in n.last_read or n.last_write has the same token as n: def-use links
\* never connect occurrences of different identifiers.
C38_SameNameEdges ==
    /\ \A t \in DOMAIN tables :
           /\ \A k \in DOMAIN tables[t].local_variables :
                  AllNamed(tables[t].local_variables[k].lr
                               \cup tables[t].local_variables[k].lw, k)
           /\ \A k \in DOMAIN tables[t].outer_variables :
                  AllNamed(tables[t].outer_variables[k].lr
                               \cup tables[t].outer_variables[k].lw, k)
    /\ \A n \in Nodes(tree) : AllNamed(last_read[n] \cup last_write[n], tree[n].token)

\* After branches that cached two names were merged and an update
\* expression was simulated, the file-level unit of one name holds two
\* writers and a node of another name has two writers in its last_write.
C38_Witness ==
    /\ status = "done"
    /\ \E i, j \in 1..Len(trace) :
           /\ trace[i].op = "merge_and_pop_self"
           /\ Cardinality(DOMAIN tables[trace[i].t].outer_variables) >= 2
           /\ trace[j].op = "rw"
    /\ \E k \in DOMAIN tables[1].local_variables :
           /\ Cardinality(tables[1].local_variables[k].lw) >= 2
           /\ \E n \in Nodes(tree) :
                  /\ tree[n].token # k
                  /\ Cardinality(last_write[n]) >= 2

(***************************************************************************)
(* C39.  Termination and the number of passes.                             *)
(***************************************************************************)
\* The call runs to its end: the interpreter takes the next step of the
\* simulation whenever there is one.
LiveSpec == Init /\ [][Next]_vars /\ WF_vars(Next)

StatementTypes ==
    {"expression_statement", "declaration", "if_statement", "return_statement",
     "for_statement", "while_statement", "do_statement", "compound_statement"}

\* The loops in whose body node n lies.
EnclosingLoops(n) ==
    {a \in Nodes(tree) :
        /\ tree[a].class \in LoopClasses
        /\ n \in {LoopBodyOf(tree, a)} \cup Descendants(tree, LoopBodyOf(tree, a))}

\* How many times node n has been simulated so far.
Passes(n) == Cardinality({e \in 1..Len(trace) : trace[e].op = "sim" /\ trace[e].n = n})

\* C39: simulate_data_flow on a finite tree terminates, with a result or
\* with an error, and a statement lying in the bodies of k for/while/do
\* statements is simulated exactly 2^k times by a run that returns (never
\* more than 2^k times by a run that raises): two passes per loop, no
\* iteration to a fixed point.
C39_TerminationAndPasses ==
    /\ <>(status # "running")
    /\ [](status # "grammar_error" =>
            \A n \in Nodes(tree) :
                tree[n].type \in StatementTypes =>
                    /\ Passes(n) <= 2 ^ Cardinality(EnclosingLoops(n))
                    /\ status = "done" => Passes(n) = 2 ^ Cardinality(EnclosingLoops(n)))

\* A run has returned; a statement in the body of a loop in the body of a
\* loop was simulated four times, and a statement outside every loop once.
C39_Witness ==
    /\ status = "done"
    /\ \E n, m \in Nodes(tree) :
           /\ tree[n].type \in StatementTypes
           /\ tree[m].type \in StatementTypes
           /\ Cardinality(EnclosingLoops(n)) = 2
           /\ Passes(n) = 4
           /\ EnclosingLoops(m) = {}
           /\ Passes(m) = 1

(***************************************************************************)
(* C40.  A scope that redeclares a name it has inherited.                  *)
(***************************************************************************)
\* The step is an access (find_and_update or the update handler) to token k
\* made in table t.
AccessTo(t, k) ==
    /\ Due("find_and_update") \/ Due("update_expression")
    /\ TableOf(Top, Current.t) = t
    /\ tree[Current.n].token = k

\* The unit table f holds for token k after it took part in a pop.
HandedTo(tbls, f, k) ==
    IF k \in DOMAIN tbls[f].local_variables
    THEN tbls[f].local_variables[k]
    ELSE tbls[f].outer_variables[k]

\* C40: a table holds both a cached copy and a binding of its own for a
\* name only when it inherited the name first and declared it afterwards.
\* From the step of the declaration on the cached copy never changes; a
\* read or write of the name made in that table changes nothing but the
\* table's own binding of the name; and table.pop_self() gives the father
\* the cached copy (so its state from before the redeclaration), never the
\* table's own binding.
C40_ShadowingWriteBack ==
    [][\A t \in DOMAIN tables :
         \A k \in DOMAIN tables[t].outer_variables \cap DOMAIN tables'[t].local_variables :
            /\ k \in DOMAIN tables'[t].outer_variables
            /\ tables'[t].outer_variables[k] = tables[t].outer_variables[k]
            /\ k \in DOMAIN tables[t].local_variables =>
                 /\ AccessTo(t, k) =>
                        tables' = [tables EXCEPT
                                      ![t].local_variables[k] = tables'[t].local_variables[k]]
                 /\ Due("pop_self") /\ TableOf(Top, Current.t) = t
                        /\ tables[t].father # None =>
                        HandedTo(tables', tables[t].father, k) = tables[t].outer_variables[k]
      ]_vars

\* A table that inherited a name, declared it and then wrote it has just
\* been popped: the father holds the cached copy, which differs from the
\* table's own binding.
C40_Witness ==
    /\ trace # <<>>
    /\ LET last == trace[Len(trace)]
       IN  /\ last.op = "pop_self"
           /\ status # "error"
           /\ \E k \in DOMAIN tables[last.t].outer_variables
                         \cap DOMAIN tables[last.t].local_variables :
                  /\ HandedTo(tables, last.c, k) = tables[last.t].outer_variables[k]
                  /\ tables[last.t].outer_variables[k] # tables[last.t].local_variables[k]
                  /\ \E i, j \in 1..Len(trace) :
                         /\ i < j
                         /\ trace[i].op = "add" /\ trace[i].t = last.t
                         /\ tree[trace[i].n].token = k
                         /\ trace[j].op \in {"wo", "rw", "ro"} /\ trace[j].t = last.t
                         /\ tree[trace[j].n].token = k

====
